---- MODULE Spec2Model ----
(***************************************************************************)
(* Model of the EVM event parser: the chunked log fetcher getEventLogs     *)
(* (utils/contracts.ts) with its adaptive re-chunking on timeout, the      *)
(* retry wrappers withProviderRetry and withHttpRetry (utils/retry.ts),    *)
(* and the role reconstruction of the find-roles task                      *)
(* (tasks/find-roles.ts).                                                  *)
(***************************************************************************)
EXTENDS Integers, Sequences, FiniteSets, TLC

VARIABLES
    cfg,            \* arguments of the getEventLogs call: fromBlock, toBlock, maxBlockRange
    pc,             \* position of the getEventLogs call
    tasks,          \* queryChunkWithRetry invocations, keyed by their path in the call tree
    progressStats,  \* the shared progress counters of the chunked path
    allLogs,        \* the value getEventLogs returns
    queried,        \* every block range handed to queryFilter so far
    outOfOrder,     \* whether a chunk query has completed before an earlier chunk's
    history,        \* the contract's RoleGranted / RoleRevoked events, in chain order
    pcR,            \* position of the find-roles action
    roleHolders,    \* find-roles: roleId -> account -> boolean, in insertion order
    roleMap,        \* find-roles: the roles object written to the result file
    call,           \* arguments of the withProviderRetry / withHttpRetry call
    rpc,            \* position of the retry wrapper
    attempts,       \* every invocation of the wrapped operation, in order
    now,            \* milliseconds the wrapper has spent in delay()
    settled,        \* what the wrapper's promise settled with
    summary,        \* getEventLogs: the failure warning of the final summary
    written,        \* find-roles: the role maps written to the result file, one per run
    warnings,       \* find-roles: console.warn calls of the current run
    job,            \* a task invocation: the task, the ABI, the event, the logs on chain
    pcT,            \* position of the task action
    nodeCalls,      \* the getBlockParams and queryFilter calls of the task, in order
    batches,        \* the processLog batches of the task: one stage per log
    output,         \* what the task action settled with
    caught,         \* isTimeoutError: the caught value it is called with
    verdict,        \* isTimeoutError: what the call returned, or the exception it threw
    focus,          \* the chunk whose withProviderRetry call is followed
    network,        \* getContractCreationBlock: the network and what explorer and node answer
    pcC,            \* position of getContractCreationBlock
    strategies,     \* the explorer requests made, in order
    txHash,         \* getContractCreationBlock: the creation transaction hash found
    info            \* the ContractCreationInfo returned, or the error propagated

fetchVars == <<cfg, pc, tasks, progressStats, allLogs, queried, outOfOrder, summary>>
roleVars == <<history, pcR, roleHolders, roleMap, written, warnings>>
taskVars == <<job, pcT, nodeCalls, batches, output>>
retryVars == <<call, rpc, attempts, now, settled>>
classifyVars == <<caught, verdict>>
chunkVars == <<focus>>
creationVars == <<network, pcC, strategies, txHash, info>>
otherVars == <<classifyVars, chunkVars, creationVars>>
vars == <<cfg, pc, tasks, progressStats, allLogs, queried, outOfOrder, history, pcR, roleHolders, roleMap,
          call, rpc, attempts, now, settled, summary, written, warnings,
          job, pcT, nodeCalls, batches, output, caught, verdict,
          focus, network, pcC, strategies, txHash, info>>

(***************************************************************************)
(* Bounds of the model.                                                    *)
(***************************************************************************)
MaxFailures == 1    \* leaf chunk queries that may fail during one fetch
MaxFrom == 2        \* largest fromBlock of the small planning spans
MaxBlock == 7       \* largest toBlock of the small planning spans
MaxRange == 3       \* largest maxBlockRange of the small planning spans
MaxEvents == 3      \* longest role event history
MaxRuns == 2        \* runs of find-roles over one event history
MaxLogs == 2        \* most logs of one event a task decodes

Min(a, b) == IF a <= b THEN a ELSE b

(***************************************************************************)
(* The ledger: the logs of the queried event, in (blockNumber, logIndex)   *)
(* order.  A node query for [from, to] returns the logs of those blocks.   *)
(***************************************************************************)
LogBlocks ==
    << <<0, 0>>, <<0, 1>>, <<1, 0>>, <<2, 0>>, <<3, 0>>, <<4, 0>>, <<4, 1>>,
       <<5, 0>>, <<6, 0>>, <<7, 0>>, <<8, 0>>, <<9, 0>>, <<10, 0>>, <<19, 0>>,
       <<20, 0>>, <<25, 0>>, <<26, 0>>, <<57, 0>>, <<99, 0>>, <<99, 1>>,
       <<100, 0>>, <<105, 0>>, <<106, 0>>, <<1099, 0>>, <<1100, 0>>,
       <<4100, 0>>, <<5000, 0>>, <<5000, 1>> >>

Ledger == [i \in 1..Len(LogBlocks) |->
              [blockNumber |-> LogBlocks[i][1], logIndex |-> LogBlocks[i][2]]]

InRange(log, fromBlock, toBlock) ==
    fromBlock <= log.blockNumber /\ log.blockNumber <= toBlock

QueryFilter(fromBlock, toBlock) ==
    SelectSeq(Ledger, LAMBDA log : InRange(log, fromBlock, toBlock))

(***************************************************************************)
(* Array.prototype.flat over an array of log arrays.                       *)
(***************************************************************************)
RECURSIVE FlatFrom(_, _)
FlatFrom(arrays, i) ==
    IF i > Len(arrays) THEN <<>> ELSE arrays[i] \o FlatFrom(arrays, i + 1)

FlatReversed(arrays) ==
    FlatFrom([i \in 1..Len(arrays) |-> arrays[Len(arrays) + 1 - i]], 1)

Flat(arrays) == FlatFrom(arrays, 1)

(***************************************************************************)
(* Chunk planning of getEventLogs.                                         *)
(***************************************************************************)
ChunkEndOffByOne(current, maxBlockRange, toBlock) ==
    Min(current + maxBlockRange, toBlock)

ChunkEnd(current, maxBlockRange, toBlock) ==
    Min(current + maxBlockRange - 1, toBlock)

RECURSIVE PlanLoop(_, _, _, _)
PlanLoop(current, toBlock, maxBlockRange, chunks) ==
    IF current < toBlock
    THEN LET end == ChunkEnd(current, maxBlockRange, toBlock)
         IN  PlanLoop(end + 1, toBlock, maxBlockRange,
                      Append(chunks, [from |-> current, to |-> end]))
    ELSE chunks

PlanChunks(fromBlock, toBlock, maxBlockRange) ==
    PlanLoop(fromBlock, toBlock, maxBlockRange, <<>>)

SingleQueryPath(fromBlock, toBlock, maxBlockRange) ==
    toBlock - fromBlock <= maxBlockRange

(***************************************************************************)
(* Re-chunking of a timed-out chunk in queryChunkWithRetry.                *)
(***************************************************************************)
ReducedMaxRange(currentMaxRange) == currentMaxRange \div 10

ChunkSize(chunk) == chunk.to - chunk.from + 1

SubChunkEndOffByOne(current, reducedMaxRange, chunkTo) ==
    Min(current + reducedMaxRange, chunkTo)

SubChunkEnd(current, reducedMaxRange, chunkTo) ==
    Min(current + reducedMaxRange - 1, chunkTo)

RECURSIVE SubChunkLoop(_, _, _, _)
SubChunkLoop(current, chunkTo, reducedMaxRange, subChunks) ==
    IF current <= chunkTo
    THEN LET end == SubChunkEnd(current, reducedMaxRange, chunkTo)
         IN  SubChunkLoop(end + 1, chunkTo, reducedMaxRange,
                          Append(subChunks, [from |-> current, to |-> end]))
    ELSE subChunks

SubChunks(chunk, reducedMaxRange) ==
    SubChunkLoop(chunk.from, chunk.to, reducedMaxRange, <<>>)

(***************************************************************************)
(* Errors a node query may throw, and their classification.                *)
(***************************************************************************)
Errors ==
    { [code |-> "TIMEOUT", message |-> {}],
      [code |-> "", message |-> {"rate limit"}],
      [code |-> "", message |-> {}] }

isTimeoutError(error) ==
    \/ error.code \in {"TIMEOUT", "ETIMEDOUT", "ECONNABORTED"}
    \/ "timeout" \in error.message
    \/ "timed out" \in error.message
    \/ "connect timeout" \in error.message

categorizeError(error) ==
    IF isTimeoutError(error) THEN "timeout"
    ELSE IF "rate limit" \in error.message \/ "429" \in error.message THEN "rate-limit"
    ELSE IF "too many requests" \in error.message THEN "rate-limit"
    ELSE "other"

ShouldSplitAnyError(error, chunk, currentMaxRange) ==
    /\ ChunkSize(chunk) > ReducedMaxRange(currentMaxRange)
    /\ ReducedMaxRange(currentMaxRange) >= 10

ShouldSplitAnyRange(error, chunk, currentMaxRange) ==
    /\ isTimeoutError(error)
    /\ ChunkSize(chunk) > ReducedMaxRange(currentMaxRange)

ShouldSplit(error, chunk, currentMaxRange) ==
    /\ isTimeoutError(error)
    /\ ChunkSize(chunk) > ReducedMaxRange(currentMaxRange)
    /\ ReducedMaxRange(currentMaxRange) >= 10

(***************************************************************************)
(* The call tree of queryChunkWithRetry.  A task is one invocation; the    *)
(* top-level chunk i has path <<i>>, its j-th sub-chunk has path <<i, j>>. *)
(***************************************************************************)
NewTask(chunk, currentMaxRange) ==
    [from |-> chunk.from, to |-> chunk.to, maxRange |-> currentMaxRange,
     st |-> "pending", err |-> "none", n |-> 0, result |-> <<>>]

ResolvedOnlyOk(task) == task.st \in {"ok", "merged"}

Resolved(task) == task.st \in {"ok", "failed", "merged"}

TopCount == Cardinality({p \in DOMAIN tasks : Len(p) = 1})

Leaves == {p \in DOMAIN tasks : tasks[p].st \in {"pending", "ok", "failed"}}

FailedLeaves == {p \in DOMAIN tasks : tasks[p].st = "failed"}

\* the query of chunk p completes while the query of an earlier chunk is in flight
OvertakesEarlier(p) ==
    \E q \in DOMAIN tasks : tasks[q].st = "pending" /\ tasks[q].to < tasks[p].from

Ranges(chunks) == {chunks[i] : i \in 1..Len(chunks)}

NoStats == [total |-> 0, completed |-> 0, failed |-> 0, errors |-> <<>>]

TotalAfterSplitOverCount(total, subCount) == total + subCount

TotalAfterSplit(total, subCount) == total + subCount - 1

CountError(errors, errorType) ==
    IF errorType \in DOMAIN errors
    THEN [errors EXCEPT ![errorType] = @ + 1]
    ELSE errors @@ (errorType :> 1)

(***************************************************************************)
(* getEventLogs, single-query path.                                        *)
(***************************************************************************)
SingleQueryStart ==
    /\ pc = "start"
    /\ SingleQueryPath(cfg.from, cfg.to, cfg.max)
    /\ pc' = "single"
    /\ queried' = queried \cup {[from |-> cfg.from, to |-> cfg.to]}
    /\ UNCHANGED <<cfg, summary, tasks, progressStats, allLogs, outOfOrder, roleVars, retryVars, taskVars, otherVars>>

SingleQuerySucceeds ==
    /\ pc = "single"
    /\ allLogs' = QueryFilter(cfg.from, cfg.to)
    /\ pc' = "done"
    /\ UNCHANGED <<cfg, summary, tasks, progressStats, queried, outOfOrder, roleVars, retryVars, taskVars, otherVars>>

SingleQueryFailsSwallowed ==
    /\ pc = "single"
    /\ \E error \in Errors : pc' = "done"
    /\ UNCHANGED <<cfg, summary, tasks, progressStats, allLogs, queried, outOfOrder, roleVars, retryVars, taskVars, otherVars>>

SingleQueryFails ==
    /\ pc = "single"
    /\ \E error \in Errors : pc' = "error"
    /\ UNCHANGED <<cfg, summary, tasks, progressStats, allLogs, queried, outOfOrder, roleVars, retryVars, taskVars, otherVars>>

(***************************************************************************)
(* getEventLogs, chunked path: plan the chunks, start one                  *)
(* queryChunkWithRetry per chunk, merge what they return.                  *)
(***************************************************************************)
ChunkedStart ==
    /\ pc = "start"
    /\ ~SingleQueryPath(cfg.from, cfg.to, cfg.max)
    /\ LET chunks == PlanChunks(cfg.from, cfg.to, cfg.max)
       IN  /\ tasks' = [p \in {<<i>> : i \in 1..Len(chunks)} |->
                           NewTask(chunks[p[1]], cfg.max)]
           /\ progressStats' = [NoStats EXCEPT !.total = Len(chunks)]
           /\ queried' = queried \cup Ranges(chunks)
    /\ pc' = "chunked"
    /\ UNCHANGED <<cfg, summary, allLogs, outOfOrder, roleVars, retryVars, taskVars, otherVars>>

ChunkSucceeds(p) ==
    /\ pc = "chunked"
    /\ tasks[p].st = "pending"
    /\ tasks' = [tasks EXCEPT ![p].st = "ok",
                              ![p].result = QueryFilter(tasks[p].from, tasks[p].to)]
    /\ progressStats' = [progressStats EXCEPT !.completed = @ + 1]
    /\ outOfOrder' = (outOfOrder \/ OvertakesEarlier(p))
    /\ UNCHANGED <<cfg, summary, pc, allLogs, queried, roleVars, retryVars, taskVars, otherVars>>

ChunkSplits(p, error) ==
    /\ pc = "chunked"
    /\ tasks[p].st = "pending"
    /\ ShouldSplit(error, tasks[p], tasks[p].maxRange)
    /\ LET reducedMaxRange == ReducedMaxRange(tasks[p].maxRange)
           subChunks == SubChunks(tasks[p], reducedMaxRange)
           subPaths == {Append(p, j) : j \in 1..Len(subChunks)}
       IN  /\ tasks' = [q \in DOMAIN tasks \cup subPaths |->
                           IF q \in subPaths
                           THEN NewTask(subChunks[q[Len(q)]], reducedMaxRange)
                           ELSE IF q = p
                           THEN [tasks[p] EXCEPT !.st = "split", !.n = Len(subChunks),
                                                 !.err = categorizeError(error)]
                           ELSE tasks[q]]
           /\ progressStats' =
                  [progressStats EXCEPT
                      !.total = TotalAfterSplit(@, Len(subChunks))]
           /\ queried' = queried \cup Ranges(subChunks)
    /\ UNCHANGED <<cfg, summary, pc, allLogs, outOfOrder, roleVars, retryVars, taskVars, otherVars>>

RecordFailureRethrow(p, error) ==
    /\ pc' = "error"
    /\ UNCHANGED <<tasks, progressStats>>

RecordFailureNotCompleted(p, error) ==
    /\ tasks' = [tasks EXCEPT ![p].st = "failed",
                              ![p].err = categorizeError(error),
                              ![p].result = <<>>]
    /\ progressStats' =
           [progressStats EXCEPT
               !.failed = @ + 1,
               !.errors = CountError(@, categorizeError(error))]
    /\ pc' = pc

RecordFailure(p, error) ==
    /\ tasks' = [tasks EXCEPT ![p].st = "failed",
                              ![p].err = categorizeError(error),
                              ![p].result = <<>>]
    /\ progressStats' =
           [progressStats EXCEPT
               !.failed = @ + 1,
               !.errors = CountError(@, categorizeError(error)),
               !.completed = @ + 1]
    /\ pc' = pc

ChunkFails(p, error) ==
    /\ pc = "chunked"
    /\ tasks[p].st = "pending"
    /\ ~ShouldSplit(error, tasks[p], tasks[p].maxRange)
    /\ progressStats.failed < MaxFailures
    /\ RecordFailure(p, error)
    /\ outOfOrder' = (outOfOrder \/ OvertakesEarlier(p))
    /\ UNCHANGED <<cfg, summary, allLogs, queried, roleVars, retryVars, taskVars, otherVars>>

ChunkTimesOutUnsplit(p, error) ==
    /\ pc = "chunked"
    /\ tasks[p].st = "pending"
    /\ isTimeoutError(error)
    /\ ~ShouldSplit(error, tasks[p], tasks[p].maxRange)
    /\ RecordFailure(p, error)
    /\ outOfOrder' = (outOfOrder \/ OvertakesEarlier(p))
    /\ UNCHANGED <<cfg, summary, allLogs, queried, roleVars, retryVars, taskVars, otherVars>>

SubResults(p) == [j \in 1..tasks[p].n |-> tasks[Append(p, j)].result]

SubChunksMerged(p) ==
    /\ pc = "chunked"
    /\ tasks[p].st = "split"
    /\ \A j \in 1..tasks[p].n : Resolved(tasks[Append(p, j)])
    /\ tasks' = [tasks EXCEPT ![p].st = "merged", ![p].result = Flat(SubResults(p))]
    /\ UNCHANGED <<cfg, summary, pc, progressStats, allLogs, queried, outOfOrder, roleVars, retryVars, taskVars, otherVars>>

NoSummary == [warned |-> FALSE, failed |-> 0, errors |-> <<>>]

\* contracts.ts 581-586: logger.warn(`${failed} chunks failed: ${errorDetails}`)
FinalSummary(stats) ==
    IF stats.failed > 0
    THEN [warned |-> TRUE, failed |-> stats.failed, errors |-> stats.errors]
    ELSE NoSummary

ChunkResults == [i \in 1..TopCount |-> tasks[<<i>>].result]

Finish ==
    /\ pc = "chunked"
    /\ \A i \in 1..TopCount : Resolved(tasks[<<i>>])
    /\ allLogs' = Flat(ChunkResults)
    /\ summary' = FinalSummary(progressStats)
    /\ pc' = "done"
    /\ UNCHANGED <<cfg, tasks, progressStats, queried, outOfOrder, roleVars, retryVars, taskVars, otherVars>>

(***************************************************************************)
(* Specifications of the fetcher.                                          *)
(***************************************************************************)
FetchIdle ==
    /\ pc = "start"
    /\ tasks = <<>>
    /\ progressStats = NoStats
    /\ allLogs = <<>>
    /\ queried = {}
    /\ outOfOrder = FALSE
    /\ summary = NoSummary

NoValue == [status |-> "none", code |-> "", message |-> {}, attempt |-> 0]

RetryIdle ==
    /\ call = [fn |-> "none", original |-> "undefined", alternativeRpcUrl |-> FALSE]
    /\ rpc = "idle"
    /\ attempts = <<>>
    /\ now = 0
    /\ settled = [kind |-> "none", value |-> NoValue]

RolesIdle ==
    /\ history = <<>>
    /\ pcR = "idle"
    /\ roleHolders = <<>>
    /\ roleMap = <<>>
    /\ written = <<>>
    /\ warnings = 0

NoOutput == [kind |-> "none", error |-> "", records |-> <<>>]

TaskIdle ==
    /\ job = [task |-> "none", abi |-> {}, eventName |-> "", chain |-> <<>>]
    /\ pcT = "idle"
    /\ nodeCalls = <<>>
    /\ batches = <<>>
    /\ output = NoOutput

ClassifyIdle ==
    /\ caught = [kind |-> "undefined"]
    /\ verdict = "idle"

ChunkIdle == focus = <<>>

CreationIdle ==
    /\ network = [explorer |-> "none"]
    /\ pcC = "idle"
    /\ strategies = <<>>
    /\ txHash = ""
    /\ info = [kind |-> "none", blockNumber |-> 0, txHash |-> ""]

OthersIdle ==
    /\ ClassifyIdle
    /\ ChunkIdle
    /\ CreationIdle

\* RPC_MAX_BLOCK_RANGE[RPCProviderType.Alchemy]
ALCHEMY_MAX_BLOCK_RANGE == 10

FetchConfigs ==
    { [from |-> 0, to |-> 105, max |-> 100],
      [from |-> 0, to |-> 25, max |-> ALCHEMY_MAX_BLOCK_RANGE],
      [from |-> 20, to |-> 57, max |-> 100] }

SmallConfigs ==
    { [from |-> f, to |-> t, max |-> m] :
        f \in 0..MaxFrom, t \in 0..MaxBlock, m \in 1..MaxRange }

ReliableConfigs ==
    {c \in SmallConfigs : c.from <= c.to}
        \cup { [from |-> 100, to |-> 5000, max |-> 1000],
               [from |-> 0, to |-> 106, max |-> 100] }

Init ==
    /\ cfg \in FetchConfigs
    /\ FetchIdle
    /\ RolesIdle
    /\ RetryIdle
    /\ TaskIdle
    /\ OthersIdle

Next ==
    \/ SingleQueryStart
    \/ SingleQuerySucceeds
    \/ SingleQueryFails
    \/ ChunkedStart
    \/ \E p \in DOMAIN tasks : ChunkSucceeds(p)
    \/ \E p \in DOMAIN tasks, error \in Errors : ChunkSplits(p, error)
    \/ \E p \in DOMAIN tasks, error \in Errors : ChunkFails(p, error)
    \/ \E p \in DOMAIN tasks : SubChunksMerged(p)
    \/ Finish

Spec == Init /\ [][Next]_vars

InitReliable ==
    /\ cfg \in ReliableConfigs
    /\ FetchIdle
    /\ RolesIdle
    /\ RetryIdle
    /\ TaskIdle
    /\ OthersIdle

NextReliable ==
    \/ SingleQueryStart
    \/ SingleQuerySucceeds
    \/ ChunkedStart
    \/ \E p \in DOMAIN tasks : ChunkSucceeds(p)
    \/ Finish

SpecReliable == InitReliable /\ [][NextReliable]_vars

\* Every query may time out, any number of them; every step that can be taken
\* eventually is (each node query eventually returns or fails).
TimeoutConfigs == { [from |-> 0, to |-> 105, max |-> 100] }

InitTimeouts ==
    /\ cfg \in TimeoutConfigs
    /\ FetchIdle
    /\ RolesIdle
    /\ RetryIdle
    /\ TaskIdle
    /\ OthersIdle

NextTimeouts ==
    \/ ChunkedStart
    \/ \E p \in DOMAIN tasks : ChunkSucceeds(p)
    \/ \E p \in DOMAIN tasks, error \in Errors : ChunkSplits(p, error)
    \/ \E p \in DOMAIN tasks, error \in Errors : ChunkTimesOutUnsplit(p, error)
    \/ \E p \in DOMAIN tasks : SubChunksMerged(p)
    \/ Finish

SpecTimeouts == InitTimeouts /\ [][NextTimeouts]_vars /\ WF_vars(NextTimeouts)

(***************************************************************************)
(* find-roles: reconstruction of the role holders from the decoded         *)
(* RoleGranted and RoleRevoked events.  An event's position in history is  *)
(* its place in chain order, (blockNumber, logIndex) ascending.            *)
(***************************************************************************)
Undefined == ""

RoleIds == {"0x00", "0xa1"}

Accounts == {"alice", "bob"}

EventNames == {"RoleGranted", "RoleRevoked"}

\* eventParameters of a decoded event: role, roleId and account, each possibly absent
\* AccessControl events carry role; an AccessManager event carries roleId instead
WellFormedParameters ==
    { [role |-> r, roleId |-> Undefined, account |-> a] : r \in RoleIds, a \in Accounts }
        \cup { [role |-> Undefined, roleId |-> "0xa1", account |-> "bob"] }

MalformedParameters ==
    { [role |-> Undefined, roleId |-> Undefined, account |-> "alice"],
      [role |-> "0x00", roleId |-> Undefined, account |-> Undefined] }

EventData ==
    { [eventName |-> e, eventParameters |-> q] :
        e \in EventNames, q \in WellFormedParameters \cup MalformedParameters }

Histories == UNION {[1..n -> EventData] : n \in 0..MaxEvents}

grantedEventsConsumed ==
    IF written = <<>>
    THEN SelectSeq(history, LAMBDA event : event.eventName = "RoleGranted")
    ELSE <<>>

grantedEvents == SelectSeq(history, LAMBDA event : event.eventName = "RoleGranted")

revokedEvents == SelectSeq(history, LAMBDA event : event.eventName = "RoleRevoked")

\* a || b on strings: the first operand unless it is falsy
Or(a, b) == IF a # Undefined THEN a ELSE b

RoleIdentifier(event) == Or(event.eventParameters.role, event.eventParameters.roleId)

SkippedNever(event) == FALSE

Skipped(event) ==
    RoleIdentifier(event) = Undefined \/ event.eventParameters.account = Undefined

\* An object with string keys in insertion order: a sequence of [key, value] entries
HasKey(object, key) == \E i \in 1..Len(object) : object[i].key = key

Get(object, key) == object[CHOOSE i \in 1..Len(object) : object[i].key = key].value

Put(object, key, value) ==
    IF HasKey(object, key)
    THEN [i \in 1..Len(object) |->
             IF object[i].key = key THEN [key |-> key, value |-> value] ELSE object[i]]
    ELSE Append(object, [key |-> key, value |-> value])

GrantOneOverwrites(holders, event) ==
    IF Skipped(event) THEN holders
    ELSE Put(holders, RoleIdentifier(event),
             Put(<<>>, event.eventParameters.account, TRUE))

GrantOne(holders, event) ==
    IF Skipped(event) THEN holders
    ELSE LET roleIdentifier == RoleIdentifier(event)
             accounts == IF HasKey(holders, roleIdentifier)
                         THEN Get(holders, roleIdentifier) ELSE <<>>
         IN  Put(holders, roleIdentifier,
                 Put(accounts, event.eventParameters.account, TRUE))

RevokeOneIgnored(holders, event) == holders

RevokeOneUnguarded(holders, event) ==
    IF Skipped(event) THEN holders
    ELSE LET roleIdentifier == RoleIdentifier(event)
             accounts == IF HasKey(holders, roleIdentifier)
                         THEN Get(holders, roleIdentifier) ELSE <<>>
         IN  Put(holders, roleIdentifier,
                 Put(accounts, event.eventParameters.account, FALSE))

RevokeOne(holders, event) ==
    IF Skipped(event) THEN holders
    ELSE LET roleIdentifier == RoleIdentifier(event)
             account == event.eventParameters.account
         IN  IF /\ HasKey(holders, roleIdentifier)
                /\ HasKey(Get(holders, roleIdentifier), account)
                /\ Get(Get(holders, roleIdentifier), account)
             THEN Put(holders, roleIdentifier,
                      Put(Get(holders, roleIdentifier), account, FALSE))
             ELSE holders

RECURSIVE GrantLoop(_, _, _)
GrantLoop(holders, events, i) ==
    IF i > Len(events) THEN holders
    ELSE GrantLoop(GrantOne(holders, events[i]), events, i + 1)

RECURSIVE RevokeLoop(_, _, _)
RevokeLoop(holders, events, i) ==
    IF i > Len(events) THEN holders
    ELSE RevokeLoop(RevokeOne(holders, events[i]), events, i + 1)

KNOWN_ROLES == << [key |-> "0x00", value |-> "DEFAULT_ADMIN_ROLE"] >>

\* contract.ADMIN_ROLE and contract.PUBLIC_ROLE are contract method wrappers, whose
\* toString() is never a role id: only KNOWN_ROLES names a role
tryIdentifyRoleName(roleId) ==
    IF HasKey(KNOWN_ROLES, roleId) THEN Get(KNOWN_ROLES, roleId) ELSE Undefined

ActiveHoldersUnfiltered(accounts) == [i \in 1..Len(accounts) |-> accounts[i].key]

ActiveHolders(accounts) ==
    LET held == SelectSeq(accounts, LAMBDA entry : entry.value)
    IN  [i \in 1..Len(held) |-> held[i].key]

RECURSIVE RoleMapLoop(_, _, _)
RoleMapLoop(map, holders, i) ==
    IF i > Len(holders) THEN map
    ELSE RoleMapLoop(
             Put(map, Or(tryIdentifyRoleName(holders[i].key), holders[i].key),
                 ActiveHolders(holders[i].value)),
             holders, i + 1)

\* the console.warn calls of a loop: one per event it skips
Warnings(events) == Len(SelectSeq(events, Skipped))

ProcessGranted ==
    /\ pcR = "granted"
    /\ roleHolders' = GrantLoop(roleHolders, grantedEvents, 1)
    /\ warnings' = warnings + Warnings(grantedEvents)
    /\ pcR' = "revoked"
    /\ UNCHANGED <<history, roleMap, written, fetchVars, retryVars, taskVars, otherVars>>

ProcessRevokedDropsEmptied ==
    /\ pcR = "revoked"
    /\ roleHolders' = SelectSeq(RevokeLoop(roleHolders, revokedEvents, 1),
                                LAMBDA entry : ActiveHolders(entry.value) # <<>>)
    /\ warnings' = warnings + Warnings(revokedEvents)
    /\ pcR' = "roleMap"
    /\ UNCHANGED <<history, roleMap, written, fetchVars, retryVars, taskVars, otherVars>>

ProcessRevoked ==
    /\ pcR = "revoked"
    /\ roleHolders' = RevokeLoop(roleHolders, revokedEvents, 1)
    /\ warnings' = warnings + Warnings(revokedEvents)
    /\ pcR' = "roleMap"
    /\ UNCHANGED <<history, roleMap, written, fetchVars, retryVars, taskVars, otherVars>>

BuildRoleMap ==
    /\ pcR = "roleMap"
    /\ roleMap' = RoleMapLoop(<<>>, roleHolders, 1)
    /\ written' = Append(written, roleMap')
    /\ pcR' = "done"
    /\ UNCHANGED <<history, roleHolders, warnings, fetchVars, retryVars, taskVars, otherVars>>

\* the task is invoked again on the same contract and block range: the action
\* starts from its own fresh roleHolders and roleMap objects
RunAgain ==
    /\ pcR = "done"
    /\ Len(written) < MaxRuns
    /\ pcR' = "granted"
    /\ roleHolders' = <<>>
    /\ roleMap' = <<>>
    /\ warnings' = 0
    /\ UNCHANGED <<history, written, fetchVars, retryVars, taskVars, otherVars>>

InitRoles ==
    /\ history \in Histories
    /\ pcR = "granted"
    /\ roleHolders = <<>>
    /\ roleMap = <<>>
    /\ written = <<>>
    /\ warnings = 0
    /\ cfg = [from |-> 0, to |-> 0, max |-> 1]
    /\ pc = "idle"
    /\ tasks = <<>>
    /\ progressStats = NoStats
    /\ allLogs = <<>>
    /\ queried = {}
    /\ outOfOrder = FALSE
    /\ summary = NoSummary
    /\ RetryIdle
    /\ TaskIdle
    /\ OthersIdle

NextRoles ==
    \/ ProcessGranted
    \/ ProcessRevoked
    \/ BuildRoleMap
    \/ RunAgain

SpecRoles == InitRoles /\ [][NextRoles]_vars

(***************************************************************************)
(* utils/retry.ts: withProviderRetry and withHttpRetry.  One call is       *)
(* followed from its first attempt to the settlement of its promise.  An   *)
(* attempt records the provider it ran on and the time it started; its     *)
(* outcome carries the number of the attempt, so that two errors of equal  *)
(* content raised by different attempts stay different objects.            *)
(***************************************************************************)
RETRY_DELAY_MS == 1000

INCREASED_TIMEOUT_MS == 30000

\* errors an attempt may reject with: error.code, and the phrases its
\* lower-cased message contains
RetryErrors ==
    { [code |-> "TIMEOUT", message |-> {}],
      [code |-> "", message |-> {"timed out"}],
      [code |-> "", message |-> {"rate limit"}],
      [code |-> "", message |-> {"429", "timeout"}],
      [code |-> "SERVER_ERROR", message |-> {}] }

\* operation.provider: absent (every operation built by createProviderOperation),
\* a provider whose connection URL cannot be read, or a provider with its URL
RetryCalls ==
    { [fn |-> "withProviderRetry", original |-> o, alternativeRpcUrl |-> a] :
          o \in {"undefined", "noUrl", "url"}, a \in BOOLEAN }
    \cup { [fn |-> "withHttpRetry", original |-> "undefined", alternativeRpcUrl |-> FALSE] }

\* the provider of the first attempt; timeout 0: the wrapper has set none
OriginalProvider == [endpoint |-> "primary", provider |-> "original", timeout |-> 0]

RetryProviderDefaultTimeout == [endpoint |-> "primary", provider |-> "retryProvider", timeout |-> 0]

RetryProvider ==
    [endpoint |-> "primary", provider |-> "retryProvider", timeout |-> INCREASED_TIMEOUT_MS]

AlternativeProviderIsPrimary ==
    [endpoint |-> "primary", provider |-> "alternativeProvider", timeout |-> 0]

AlternativeProvider ==
    [endpoint |-> "alternative", provider |-> "alternativeProvider", timeout |-> 0]

HttpOperation == [endpoint |-> "http", provider |-> "none", timeout |-> 0]

\* retry.ts 49: (operation as any).provider of a function that has no such
\* property; retry.ts 53 passes it to the operation
UndefinedProvider == [endpoint |-> "none", provider |-> "undefined", timeout |-> 0]

\* the first argument of createProviderOperation at the call sites:
\* hre.ethers.provider, contract.runner
WrappedProvider == [endpoint |-> "primary", provider |-> "original", timeout |-> 0]

createProviderOperationPassThrough(provider, p) == p

\* retry.ts 161-164: the provider the wrapped operation runs on, p || provider
createProviderOperation(provider, p) == IF p = UndefinedProvider THEN provider ELSE p

\* the provider an attempt runs on when withProviderRetry passes p to the
\* operation: an operation built by createProviderOperation has no provider
\* property (call.original is undefined) and substitutes the wrapped provider
RunsOn(p) ==
    IF call.original = "undefined" THEN createProviderOperation(WrappedProvider, p) ELSE p

\* retry.ts 49
originalProvider == IF call.original = "undefined" THEN UndefinedProvider ELSE OriginalProvider

Attempt(on, at) ==
    [endpoint |-> on.endpoint, provider |-> on.provider, timeout |-> on.timeout,
     at |-> at, outcome |-> [status |-> "pending", code |-> "", message |-> {}, attempt |-> 0]]

Ok(k) == [status |-> "ok", code |-> "", message |-> {}, attempt |-> k]

Failure(error, k) ==
    [status |-> "error", code |-> error.code, message |-> error.message, attempt |-> k]

Settle(atts, outcome) == [atts EXCEPT ![Len(atts)].outcome = outcome]

NeedsTimeoutRetryAnyError(error, original) == original # "undefined"

NeedsTimeoutRetry(error, original) == isTimeoutError(error) /\ original # "undefined"

ProviderUrlMissing(original) == FALSE

ProviderUrl(original) == original = "url"

ThrownLastError(atts) == atts[Len(atts)].outcome

ThrownWithoutAlternative(atts) == atts[1].outcome

ThrownFirstError(atts) == atts[1].outcome

ThrownAfterAlternative(atts) == atts[Len(atts)].outcome

ThrownFirstHttpError(atts) == atts[1].outcome

ThrownAfterHttpRetry(atts) == atts[Len(atts)].outcome

\* retry.ts 86-97: without an alternative RPC the primary error is thrown,
\* with one the wrapper enters the delay before the alternative attempt
ToAlternative(atts) ==
    IF ~call.alternativeRpcUrl
    THEN /\ rpc' = "thrown"
         /\ settled' = [kind |-> "thrown", value |-> ThrownWithoutAlternative(atts)]
    ELSE /\ rpc' = "alternativeDelay"
         /\ settled' = settled

Returns(atts) ==
    /\ rpc' = "returned"
    /\ settled' = [kind |-> "returned", value |-> atts[Len(atts)].outcome]

WithProviderRetryStart ==
    /\ rpc = "start"
    /\ call.fn = "withProviderRetry"
    /\ attempts' = <<Attempt(RunsOn(originalProvider), now)>>
    /\ rpc' = "primary"
    /\ UNCHANGED <<call, now, settled, fetchVars, roleVars, taskVars, otherVars>>

PrimarySucceeds ==
    /\ rpc = "primary"
    /\ attempts' = Settle(attempts, Ok(Len(attempts)))
    /\ Returns(attempts')
    /\ UNCHANGED <<call, now, fetchVars, roleVars, taskVars, otherVars>>

PrimaryFails(error) ==
    /\ rpc = "primary"
    /\ attempts' = Settle(attempts, Failure(error, Len(attempts)))
    /\ IF NeedsTimeoutRetry(error, call.original)
       THEN rpc' = "timeoutDelay" /\ settled' = settled
       ELSE ToAlternative(attempts')
    /\ UNCHANGED <<call, now, fetchVars, roleVars, taskVars, otherVars>>

TimeoutDelayElapsed ==
    /\ rpc = "timeoutDelay"
    /\ now' = now + RETRY_DELAY_MS
    /\ IF ProviderUrl(call.original)
       THEN /\ attempts' = Append(attempts, Attempt(RunsOn(RetryProvider), now'))
            /\ rpc' = "timeoutRetry"
            /\ settled' = settled
       ELSE /\ attempts' = attempts
            /\ ToAlternative(attempts)
    /\ UNCHANGED <<call, fetchVars, roleVars, taskVars, otherVars>>

TimeoutRetrySucceeds ==
    /\ rpc = "timeoutRetry"
    /\ attempts' = Settle(attempts, Ok(Len(attempts)))
    /\ Returns(attempts')
    /\ UNCHANGED <<call, now, fetchVars, roleVars, taskVars, otherVars>>

TimeoutRetryFails(error) ==
    /\ rpc = "timeoutRetry"
    /\ attempts' = Settle(attempts, Failure(error, Len(attempts)))
    /\ ToAlternative(attempts')
    /\ UNCHANGED <<call, now, fetchVars, roleVars, taskVars, otherVars>>

AlternativeWithoutDelay ==
    /\ rpc = "alternativeDelay"
    /\ now' = now
    /\ attempts' = Append(attempts, Attempt(RunsOn(AlternativeProvider), now'))
    /\ rpc' = "alternative"
    /\ UNCHANGED <<call, settled, fetchVars, roleVars, taskVars, otherVars>>

AlternativeDelayElapsed ==
    /\ rpc = "alternativeDelay"
    /\ now' = now + RETRY_DELAY_MS
    /\ attempts' = Append(attempts, Attempt(RunsOn(AlternativeProvider), now'))
    /\ rpc' = "alternative"
    /\ UNCHANGED <<call, settled, fetchVars, roleVars, taskVars, otherVars>>

AlternativeSucceeds ==
    /\ rpc = "alternative"
    /\ attempts' = Settle(attempts, Ok(Len(attempts)))
    /\ Returns(attempts')
    /\ UNCHANGED <<call, now, fetchVars, roleVars, taskVars, otherVars>>

AlternativeFails(error) ==
    /\ rpc = "alternative"
    /\ attempts' = Settle(attempts, Failure(error, Len(attempts)))
    /\ rpc' = "thrown"
    /\ settled' = [kind |-> "thrown", value |-> ThrownAfterAlternative(attempts')]
    /\ UNCHANGED <<call, now, fetchVars, roleVars, taskVars, otherVars>>

WithHttpRetryStart ==
    /\ rpc = "start"
    /\ call.fn = "withHttpRetry"
    /\ attempts' = <<Attempt(HttpOperation, now)>>
    /\ rpc' = "http"
    /\ UNCHANGED <<call, now, settled, fetchVars, roleVars, taskVars, otherVars>>

HttpSucceeds ==
    /\ rpc = "http"
    /\ attempts' = Settle(attempts, Ok(Len(attempts)))
    /\ Returns(attempts')
    /\ UNCHANGED <<call, now, fetchVars, roleVars, taskVars, otherVars>>

HttpFails(error) ==
    /\ rpc = "http"
    /\ attempts' = Settle(attempts, Failure(error, Len(attempts)))
    /\ rpc' = "httpDelay"
    /\ UNCHANGED <<call, now, settled, fetchVars, roleVars, taskVars, otherVars>>

HttpDelayElapsed ==
    /\ rpc = "httpDelay"
    /\ now' = now + RETRY_DELAY_MS
    /\ attempts' = Append(attempts, Attempt(HttpOperation, now'))
    /\ rpc' = "httpRetry"
    /\ UNCHANGED <<call, settled, fetchVars, roleVars, taskVars, otherVars>>

HttpRetrySucceeds ==
    /\ rpc = "httpRetry"
    /\ attempts' = Settle(attempts, Ok(Len(attempts)))
    /\ Returns(attempts')
    /\ UNCHANGED <<call, now, fetchVars, roleVars, taskVars, otherVars>>

HttpRetryFails(error) ==
    /\ rpc = "httpRetry"
    /\ attempts' = Settle(attempts, Failure(error, Len(attempts)))
    /\ rpc' = "thrown"
    /\ settled' = [kind |-> "thrown", value |-> ThrownAfterHttpRetry(attempts')]
    /\ UNCHANGED <<call, now, fetchVars, roleVars, taskVars, otherVars>>

InitRetry ==
    /\ call \in RetryCalls
    /\ rpc = "start"
    /\ attempts = <<>>
    /\ now = 0
    /\ settled = [kind |-> "none", value |-> NoValue]
    /\ cfg = [from |-> 0, to |-> 0, max |-> 1]
    /\ pc = "idle"
    /\ tasks = <<>>
    /\ progressStats = NoStats
    /\ allLogs = <<>>
    /\ queried = {}
    /\ outOfOrder = FALSE
    /\ summary = NoSummary
    /\ RolesIdle
    /\ TaskIdle
    /\ OthersIdle

NextRetry ==
    \/ WithProviderRetryStart
    \/ PrimarySucceeds
    \/ \E error \in RetryErrors : PrimaryFails(error)
    \/ TimeoutDelayElapsed
    \/ TimeoutRetrySucceeds
    \/ \E error \in RetryErrors : TimeoutRetryFails(error)
    \/ AlternativeDelayElapsed
    \/ AlternativeSucceeds
    \/ \E error \in RetryErrors : AlternativeFails(error)
    \/ WithHttpRetryStart
    \/ HttpSucceeds
    \/ \E error \in RetryErrors : HttpFails(error)
    \/ HttpDelayElapsed
    \/ HttpRetrySucceeds
    \/ \E error \in RetryErrors : HttpRetryFails(error)

SpecRetry == InitRetry /\ [][NextRetry]_vars

(***************************************************************************)
(* The find-roles and find-events task actions around the fetch: the block *)
(* parameters, the check of the ABI, one getEventLogs call per event, then *)
(* one processLog per log under Promise.all, then the result file.  The    *)
(* fetch itself is taken as reliable here; a job fixes what getTransaction *)
(* and getBlock return for every log: a value or null.                     *)
(***************************************************************************)
TaskEvents == {"RoleGranted", "RoleRevoked", "Transfer"}

Abis == { TaskEvents, {"RoleGranted", "Transfer"}, {"RoleRevoked"}, {} }

Lookups ==
    { [tx |-> TRUE, block |-> TRUE],
      [tx |-> FALSE, block |-> TRUE],
      [tx |-> TRUE, block |-> FALSE] }

LogLists == UNION {[1..n -> Lookups] : n \in 0..MaxLogs}

Jobs ==
    { [task |-> "find-roles", abi |-> a, eventName |-> "",
       chain |-> [e \in TaskEvents |->
                     IF e = "RoleGranted" THEN g ELSE IF e = "RoleRevoked" THEN r ELSE <<>>]] :
          a \in Abis, g \in LogLists, r \in LogLists }
    \cup { [task |-> "find-events", abi |-> a, eventName |-> "Transfer",
            chain |-> [e \in TaskEvents |-> IF e = "Transfer" THEN t ELSE <<>>]] :
               a \in Abis, t \in LogLists }

\* contractAbi.some(item => item.type === "event" && item.name === name)
HasEvent(abi, name) == name \in abi

HasFilterAny(abi, eventName) == TRUE

\* contract.filters[eventName], of the contract created from the ABI
HasFilter(abi, eventName) == eventName \in abi

\* the getEventLogs calls of the action, in order
FetchPlan ==
    IF job.task = "find-roles" THEN <<"RoleGranted", "RoleRevoked">> ELSE <<job.eventName>>

Fetched == Len(SelectSeq(nodeCalls, LAMBDA c : c.call = "queryFilter"))

NewBatch(eventName) ==
    [eventName |-> eventName,
     stages |-> [i \in 1..Len(job.chain[eventName]) |-> "getTransaction"]]

CurrentBatch == batches[Len(batches)]

LookupsOkTxOnly(lookup) == lookup.tx

\* events.ts 19: !tx || !block
LookupsOk(lookup) == lookup.tx /\ lookup.block

RecordsOf(batch) ==
    [i \in 1..Len(batch.stages) |-> [eventName |-> batch.eventName, log |-> i]]

RECURSIVE AllRecords(_, _)
AllRecords(bs, k) ==
    IF k > Len(bs) THEN <<>> ELSE RecordsOf(bs[k]) \o AllRecords(bs, k + 1)

Throw(message) ==
    /\ pcT' = "failed"
    /\ output' = [kind |-> "thrown", error |-> message, records |-> <<>>]

GetBlockParams ==
    /\ pcT = "start"
    /\ nodeCalls' = Append(nodeCalls, [call |-> "getBlockParams", eventName |-> ""])
    /\ pcT' = IF job.task = "find-roles" THEN "check" ELSE "fetch"
    /\ UNCHANGED <<job, batches, output, fetchVars, roleVars, retryVars, otherVars>>

CheckAccessControlEvents ==
    /\ pcT = "check"
    /\ IF HasEvent(job.abi, "RoleGranted") /\ HasEvent(job.abi, "RoleRevoked")
       THEN pcT' = "fetch" /\ output' = output
       ELSE Throw("Contract does not implement AccessControl interface")
    /\ UNCHANGED <<job, nodeCalls, batches, fetchVars, roleVars, retryVars, otherVars>>

GetEventLogsCall ==
    /\ pcT = "fetch"
    /\ LET eventName == FetchPlan[Fetched + 1]
       IN  IF ~HasFilter(job.abi, eventName)
           THEN /\ Throw("Event not found in contract ABI")
                /\ UNCHANGED <<nodeCalls, batches>>
           ELSE /\ nodeCalls' = Append(nodeCalls, [call |-> "queryFilter", eventName |-> eventName])
                /\ output' = output
                /\ IF Fetched + 1 = Len(FetchPlan)
                   THEN pcT' = "decode" /\ batches' = <<NewBatch(FetchPlan[1])>>
                   ELSE pcT' = "fetch" /\ batches' = batches
    /\ UNCHANGED <<job, fetchVars, roleVars, retryVars, otherVars>>

ProcessLogGetTransaction(i) ==
    /\ pcT = "decode"
    /\ i \in 1..Len(CurrentBatch.stages)
    /\ CurrentBatch.stages[i] = "getTransaction"
    /\ batches' = [batches EXCEPT ![Len(batches)].stages[i] = "getBlock"]
    /\ UNCHANGED <<job, pcT, nodeCalls, output, fetchVars, roleVars, retryVars, otherVars>>

ProcessLogGetBlock(i) ==
    /\ pcT = "decode"
    /\ i \in 1..Len(CurrentBatch.stages)
    /\ CurrentBatch.stages[i] = "getBlock"
    /\ IF LookupsOk(job.chain[CurrentBatch.eventName][i])
       THEN /\ batches' = [batches EXCEPT ![Len(batches)].stages[i] = "record"]
            /\ UNCHANGED <<pcT, output>>
       ELSE /\ batches' = [batches EXCEPT ![Len(batches)].stages[i] = "rejected"]
            /\ Throw("Failed to fetch transaction or block data")
    /\ UNCHANGED <<job, nodeCalls, fetchVars, roleVars, retryVars, otherVars>>

\* Promise.all over the processLog calls of the batch resolves
BatchResolved ==
    /\ pcT = "decode"
    /\ \A i \in 1..Len(CurrentBatch.stages) : CurrentBatch.stages[i] = "record"
    /\ IF Len(batches) < Len(FetchPlan)
       THEN pcT' = "decode" /\ batches' = Append(batches, NewBatch(FetchPlan[Len(batches) + 1]))
       ELSE pcT' = "write" /\ batches' = batches
    /\ UNCHANGED <<job, nodeCalls, output, fetchVars, roleVars, retryVars, otherVars>>

WriteResult ==
    /\ pcT = "write"
    /\ output' = [kind |-> "written", error |-> "", records |-> AllRecords(batches, 1)]
    /\ pcT' = "done"
    /\ UNCHANGED <<job, nodeCalls, batches, fetchVars, roleVars, retryVars, otherVars>>

InitTask ==
    /\ job \in Jobs
    /\ pcT = "start"
    /\ nodeCalls = <<>>
    /\ batches = <<>>
    /\ output = NoOutput
    /\ cfg = [from |-> 0, to |-> 0, max |-> 1]
    /\ pc = "idle"
    /\ tasks = <<>>
    /\ progressStats = NoStats
    /\ allLogs = <<>>
    /\ queried = {}
    /\ outOfOrder = FALSE
    /\ summary = NoSummary
    /\ RolesIdle
    /\ RetryIdle
    /\ OthersIdle

NextTask ==
    \/ GetBlockParams
    \/ CheckAccessControlEvents
    \/ GetEventLogsCall
    \/ \E i \in 1..MaxLogs : ProcessLogGetTransaction(i)
    \/ \E i \in 1..MaxLogs : ProcessLogGetBlock(i)
    \/ BatchResolved
    \/ WriteResult

SpecTask == InitTask /\ [][NextTask]_vars

(***************************************************************************)
(* utils/retry.ts: isTimeoutError, character by character.  A string is a  *)
(* sequence of characters; a caught value is undefined, null or an object  *)
(* whose code is absent, a string or a number (the JSON-RPC error code of  *)
(* a provider error) and whose message is absent or a string.              *)
(***************************************************************************)
UpperCase ==
    <<"A", "B", "C", "D", "E", "F", "G", "H", "I", "J", "K", "L", "M",
      "N", "O", "P", "Q", "R", "S", "T", "U", "V", "W", "X", "Y", "Z">>

LowerCase ==
    <<"a", "b", "c", "d", "e", "f", "g", "h", "i", "j", "k", "l", "m",
      "n", "o", "p", "q", "r", "s", "t", "u", "v", "w", "x", "y", "z">>

Translate(c, from, to) ==
    IF \E i \in DOMAIN from : from[i] = c
    THEN to[CHOOSE i \in DOMAIN from : from[i] = c]
    ELSE c

toLowerCase(string) == [i \in DOMAIN string |-> Translate(string[i], UpperCase, LowerCase)]

toUpperCase(string) == [i \in DOMAIN string |-> Translate(string[i], LowerCase, UpperCase)]

includes(string, part) ==
    \E i \in 0..(Len(string) - Len(part)) : SubSeq(string, i + 1, i + Len(part)) = part

Absent == [type |-> "undefined", chars |-> <<>>, number |-> 0]

String(chars) == [type |-> "string", chars |-> chars, number |-> 0]

Number(n) == [type |-> "number", chars |-> <<>>, number |-> n]

IsNumber(value) == value.type = "number"

IsString(value) == value.type = "string"

CodeStrings ==
    { <<>>,
      <<"T", "I", "M", "E", "O", "U", "T">>,
      <<"t", "i", "m", "e", "o", "u", "t">>,
      <<"E", "T", "I", "M", "E", "D", "O", "U", "T">>,
      <<"E", "t", "i", "m", "e", "d", "o", "u", "t">>,
      <<"E", "C", "O", "N", "N", "A", "B", "O", "R", "T", "E", "D">>,
      <<"e", "c", "o", "n", "n", "a", "b", "o", "r", "t", "e", "d">>,
      <<"S", "E", "R", "V", "E", "R", "_", "E", "R", "R", "O", "R">>,
      <<"U", "N", "D", "_", "E", "R", "R", "_", "C", "O", "N", "N", "E", "C", "T", "_", "T", "I", "M", "E", "O", "U", "T">> }

MessageStrings ==
    { <<>>,
      <<"R", "e", "q", "u", "e", "s", "t", " ", "T", "i", "m", "e", "o", "u", "t">>,
      <<"r", "e", "q", "u", "e", "s", "t", " ", "t", "i", "m", "e", "d", " ", "o", "u", "t">>,
      <<"C", "o", "n", "n", "e", "c", "t", " ", "T", "i", "m", "e", "o", "u", "t", " ", "E", "r", "r", "o", "r">>,
      <<"T", "I", "M", "E", "O", "U", "T">>,
      <<"t", "i", "m", "e", " ", "o", "u", "t">>,
      <<"d", "e", "a", "d", "l", "i", "n", "e", " ", "e", "x", "c", "e", "e", "d", "e", "d">>,
      <<"r", "a", "t", "e", " ", "l", "i", "m", "i", "t">> }

\* JSON-RPC error codes of a provider error: limit exceeded, server error
CodeNumbers == {-32005, -32000}

NoError(kind) == [kind |-> kind, code |-> Absent, message |-> Absent]

CaughtValues ==
    {NoError("undefined"), NoError("null")}
    \cup { [kind |-> "object", code |-> c, message |-> m] :
               c \in {Absent} \cup {String(x) : x \in CodeStrings}
                       \cup {Number(n) : n \in CodeNumbers},
               m \in {Absent} \cup {String(x) : x \in MessageStrings} }

\* retry.ts 15: !error
Missing(value) == value.kind \in {"undefined", "null"}

\* retry.ts 16: error.message?.toLowerCase() || ""
LoweredMessage(value) ==
    IF value.message = Absent THEN <<>> ELSE toLowerCase(value.message.chars)

\* retry.ts 17: error.code?.toUpperCase() is a call of undefined, a TypeError,
\* when the code is a number
CodeThrows(value) == ~Missing(value) /\ IsNumber(value.code)

RaisedCode(value) ==
    IF value.code = Absent THEN <<>> ELSE toUpperCase(value.code.chars)

TimeoutCodes == {<<"T", "I", "M", "E", "O", "U", "T">>, <<"E", "T", "I", "M", "E", "D", "O", "U", "T">>, <<"E", "C", "O", "N", "N", "A", "B", "O", "R", "T", "E", "D">>}

TimeoutTexts == {<<"t", "i", "m", "e", "o", "u", "t">>, <<"t", "i", "m", "e", "d", " ", "o", "u", "t">>, <<"c", "o", "n", "n", "e", "c", "t", " ", "t", "i", "m", "e", "o", "u", "t">>}

\* retry.ts 18-25
TimeoutSignal(code, message) ==
    \/ code \in TimeoutCodes
    \/ \E text \in TimeoutTexts : includes(message, text)

IsTimeoutErrorReturns ==
    /\ verdict = "called"
    /\ ~CodeThrows(caught)
    /\ verdict' = IF Missing(caught) THEN "false"
                  ELSE IF TimeoutSignal(RaisedCode(caught), LoweredMessage(caught)) THEN "true"
                  ELSE "false"
    /\ UNCHANGED <<caught, fetchVars, roleVars, retryVars, taskVars, chunkVars, creationVars>>

IsTimeoutErrorThrows ==
    /\ verdict = "called"
    /\ CodeThrows(caught)
    /\ verdict' = "TypeError"
    /\ UNCHANGED <<caught, fetchVars, roleVars, retryVars, taskVars, chunkVars, creationVars>>

InitClassify ==
    /\ caught \in CaughtValues
    /\ verdict = "called"
    /\ cfg = [from |-> 0, to |-> 0, max |-> 1]
    /\ pc = "idle"
    /\ tasks = <<>>
    /\ progressStats = NoStats
    /\ allLogs = <<>>
    /\ queried = {}
    /\ outOfOrder = FALSE
    /\ summary = NoSummary
    /\ RolesIdle
    /\ RetryIdle
    /\ TaskIdle
    /\ ChunkIdle
    /\ CreationIdle

NextClassify ==
    \/ IsTimeoutErrorReturns
    \/ IsTimeoutErrorThrows

SpecClassify == InitClassify /\ [][NextClassify]_vars

(***************************************************************************)
(* utils/contracts.ts: one queryChunkWithRetry invocation together with    *)
(* its withProviderRetry call.  getEventLogs plans the chunks; the wrapper *)
(* call of the chunk in focus is followed attempt by attempt, and what it  *)
(* settles with is handled by the try or the catch block of                *)
(* queryChunkWithRetry.  The operation is built by createProviderOperation,*)
(* the alternative RPC is the one getEventLogs was given.                  *)
(***************************************************************************)
ChunkCallConfigs ==
    { [from |-> 0, to |-> 105, max |-> 100],
      [from |-> 0, to |-> 25, max |-> 10] }

ChunkCalls ==
    { [fn |-> "withProviderRetry", original |-> "undefined", alternativeRpcUrl |-> a] :
          a \in BOOLEAN }

CaughtFirstError == [code |-> attempts[1].outcome.code, message |-> attempts[1].outcome.message]

\* contracts.ts 532: the error the catch block of queryChunkWithRetry receives
CaughtError == [code |-> settled.value.code, message |-> settled.value.message]

\* contracts.ts 515-526
QueryChunkStart ==
    /\ pc = "chunked"
    /\ WithProviderRetryStart

\* contracts.ts 528-531
QueryChunkReturned ==
    /\ rpc = "returned"
    /\ ChunkSucceeds(focus)

\* contracts.ts 532-554
QueryChunkResplit ==
    /\ rpc = "thrown"
    /\ ChunkSplits(focus, CaughtError)

\* contracts.ts 556-564
QueryChunkFailed ==
    /\ rpc = "thrown"
    /\ ChunkFails(focus, CaughtError)

InitChunk ==
    /\ cfg \in ChunkCallConfigs
    /\ FetchIdle
    /\ call \in ChunkCalls
    /\ rpc = "start"
    /\ attempts = <<>>
    /\ now = 0
    /\ settled = [kind |-> "none", value |-> NoValue]
    /\ focus \in {<<1>>, <<2>>}
    /\ RolesIdle
    /\ TaskIdle
    /\ ClassifyIdle
    /\ CreationIdle

NextChunk ==
    \/ ChunkedStart
    \/ QueryChunkStart
    \/ PrimarySucceeds
    \/ \E error \in RetryErrors : PrimaryFails(error)
    \/ AlternativeDelayElapsed
    \/ AlternativeSucceeds
    \/ \E error \in RetryErrors : AlternativeFails(error)
    \/ QueryChunkReturned
    \/ QueryChunkResplit
    \/ QueryChunkFailed

SpecChunk == InitChunk /\ [][NextChunk]_vars

(***************************************************************************)
(* utils/contracts.ts: getContractCreationBlock with the explorer lookups  *)
(* getContractCreationTxFromEtherscan and                                  *)
(* getContractCreationTxFromBlockscout.  Every explorer request runs under *)
(* withHttpRetry and the transaction lookup under withProviderRetry: an    *)
(* answer is what the wrapper settles with, after its retries.             *)
(***************************************************************************)
\* what an explorer request settles with: an error, a response that carries a
\* transaction hash, a response that carries none
Answers == {"throws", "hash", "nohash"}

\* what provider.getTransaction settles with: an error, null, a transaction not
\* yet mined (blockNumber null), a mined transaction (of block 0 or a later one)
TransactionAnswers ==
    { [kind |-> "throws", blockNumber |-> 0],
      [kind |-> "null", blockNumber |-> 0],
      [kind |-> "pending", blockNumber |-> 0],
      [kind |-> "mined", blockNumber |-> 0],
      [kind |-> "mined", blockNumber |-> 5] }

NoAnswers == [getcontractcreation |-> "nohash", v2 |-> "nohash", txlist |-> "nohash"]

\* hre.network.config.chainId, Explorers[chainId] and its type, the API key of
\* the network, and what explorer and node answer
Networks ==
    { [explorer |-> e, apiKey |-> FALSE, answers |-> NoAnswers, tx |-> t] :
          e \in {"noChainId", "notConfigured"}, t \in {[kind |-> "null", blockNumber |-> 0]} }
    \cup { [explorer |-> "etherscan", apiKey |-> k,
            answers |-> [NoAnswers EXCEPT !.getcontractcreation = a], tx |-> t] :
               k \in BOOLEAN, a \in Answers, t \in TransactionAnswers }
    \cup { [explorer |-> "blockscout", apiKey |-> FALSE,
            answers |-> [getcontractcreation |-> a, v2 |-> b, txlist |-> c], tx |-> t] :
               a \in Answers, b \in Answers, c \in Answers, t \in TransactionAnswers }

\* the hash each request finds: result[0].txHash, creation_tx_hash, result[0].hash
HashFrom(request) ==
    CASE request = "getcontractcreation" -> "0xc0"
      [] request = "v2" -> "0xc2"
      [] request = "txlist" -> "0xf1"

\* contracts.ts 260-263
NotDetermined == [kind |-> "returned", blockNumber |-> 0, txHash |-> Undefined]

OnErrorRethrows(message) == [kind |-> "thrown", blockNumber |-> 0, txHash |-> Undefined]

\* contracts.ts 265-268: the catch block of getContractCreationBlock
OnError(message) == [kind |-> "returned", blockNumber |-> 0, txHash |-> Undefined]

\* contracts.ts 241-263: what getContractCreationBlock does with the hash the
\* explorer lookup returned
HashReturned(hash) ==
    /\ txHash' = hash
    /\ IF hash # Undefined
       THEN pcC' = "transaction" /\ info' = info
       ELSE pcC' = "done" /\ info' = NotDetermined

Fails(message) ==
    /\ pcC' = "done"
    /\ info' = OnError(message)
    /\ txHash' = txHash

\* contracts.ts 331-354: the v2 request stands in the catch block of the first
\* request, so a first response without hash goes on to the txlist request
AfterGetContractCreation(answer) == IF answer = "throws" THEN "v2" ELSE "txlist"

\* contracts.ts 208-223
ResolveExplorer ==
    /\ pcC = "start"
    /\ CASE network.explorer = "noChainId" -> Fails("Chain ID not found")
         [] network.explorer = "notConfigured" -> Fails("Explorer not configured")
         [] network.explorer = "etherscan" -> pcC' = "etherscan" /\ UNCHANGED <<txHash, info>>
         [] network.explorer = "blockscout" ->
                pcC' = "getcontractcreation" /\ UNCHANGED <<txHash, info>>
    /\ UNCHANGED <<network, strategies, fetchVars, roleVars, retryVars, taskVars,
                   classifyVars, chunkVars>>

\* contracts.ts 271-300: getContractCreationTxFromEtherscan
EtherscanGetContractCreation ==
    /\ pcC = "etherscan"
    /\ IF ~network.apiKey
       THEN Fails("API key environment variable not set") /\ strategies' = strategies
       ELSE /\ strategies' = Append(strategies, "etherscan")
            /\ CASE network.answers.getcontractcreation = "throws" -> Fails("request failed")
                 [] network.answers.getcontractcreation = "hash" ->
                        HashReturned(HashFrom("getcontractcreation"))
                 [] network.answers.getcontractcreation = "nohash" -> HashReturned(Undefined)
    /\ UNCHANGED <<network, fetchVars, roleVars, retryVars, taskVars, classifyVars, chunkVars>>

\* contracts.ts 309-330
BlockscoutGetContractCreation ==
    /\ pcC = "getcontractcreation"
    /\ strategies' = Append(strategies, "getcontractcreation")
    /\ IF network.answers.getcontractcreation = "hash"
       THEN HashReturned(HashFrom("getcontractcreation"))
       ELSE /\ pcC' = AfterGetContractCreation(network.answers.getcontractcreation)
            /\ UNCHANGED <<txHash, info>>
    /\ UNCHANGED <<network, fetchVars, roleVars, retryVars, taskVars, classifyVars, chunkVars>>

\* contracts.ts 337-352
BlockscoutV2 ==
    /\ pcC = "v2"
    /\ strategies' = Append(strategies, "v2")
    /\ IF network.answers.v2 = "hash"
       THEN HashReturned(HashFrom("v2"))
       ELSE pcC' = "txlist" /\ UNCHANGED <<txHash, info>>
    /\ UNCHANGED <<network, fetchVars, roleVars, retryVars, taskVars, classifyVars, chunkVars>>

\* contracts.ts 355-389
BlockscoutTxList ==
    /\ pcC = "txlist"
    /\ strategies' = Append(strategies, "txlist")
    /\ IF network.answers.txlist = "hash"
       THEN HashReturned(HashFrom("txlist"))
       ELSE HashReturned(Undefined)
    /\ UNCHANGED <<network, fetchVars, roleVars, retryVars, taskVars, classifyVars, chunkVars>>

\* contracts.ts 244-263
GetTransaction ==
    /\ pcC = "transaction"
    /\ pcC' = "done"
    /\ info' = CASE network.tx.kind = "throws" -> OnError("getTransaction failed")
                 [] network.tx.kind = "mined" /\ network.tx.blockNumber # 0 ->
                        [kind |-> "returned", blockNumber |-> network.tx.blockNumber,
                         txHash |-> txHash]
                 [] OTHER -> NotDetermined
    /\ UNCHANGED <<network, strategies, txHash, fetchVars, roleVars, retryVars, taskVars,
                   classifyVars, chunkVars>>

InitCreation ==
    /\ network \in Networks
    /\ pcC = "start"
    /\ strategies = <<>>
    /\ txHash = Undefined
    /\ info = [kind |-> "none", blockNumber |-> 0, txHash |-> Undefined]
    /\ cfg = [from |-> 0, to |-> 0, max |-> 1]
    /\ pc = "idle"
    /\ tasks = <<>>
    /\ progressStats = NoStats
    /\ allLogs = <<>>
    /\ queried = {}
    /\ outOfOrder = FALSE
    /\ summary = NoSummary
    /\ RolesIdle
    /\ RetryIdle
    /\ TaskIdle
    /\ ClassifyIdle
    /\ ChunkIdle

NextCreation ==
    \/ ResolveExplorer
    \/ EtherscanGetContractCreation
    \/ BlockscoutGetContractCreation
    \/ BlockscoutV2
    \/ BlockscoutTxList
    \/ GetTransaction

SpecCreation == InitCreation /\ [][NextCreation]_vars

(***************************************************************************)
(* Properties.                                                             *)
(***************************************************************************)
ChunkedPathTaken == tasks # <<>>

TopChunk(i) == tasks[<<i>>]

BlocksOf(chunk) == chunk.from..chunk.to

Ceil(a, b) == (a + b - 1) \div b

IsSubPath(p, q) == Len(q) >= Len(p) /\ SubSeq(q, 1, Len(p)) = p

LeavesUnder(p) == {q \in Leaves : IsSubPath(p, q)}

\* the results of the given tasks, concatenated by ascending first block
RECURSIVE ConcatAscending(_)
ConcatAscending(paths) ==
    IF paths = {} THEN <<>>
    ELSE LET first == CHOOSE p \in paths : \A q \in paths : tasks[p].from <= tasks[q].from
         IN  tasks[first].result \o ConcatAscending(paths \ {first})

LogLeq(a, b) ==
    \/ a.blockNumber < b.blockNumber
    \/ a.blockNumber = b.blockNumber /\ a.logIndex <= b.logIndex

IsOrdered(logs) == \A i \in 1..(Len(logs) - 1) : LogLeq(logs[i], logs[i + 1])

RECURSIVE SumOver(_, _)
SumOver(f, keys) ==
    IF keys = {} THEN 0
    ELSE LET k == CHOOSE x \in keys : TRUE IN f[k] + SumOver(f, keys \ {k})

\* the chain-order state of a (role, account) pair: held iff its last event is a grant
Concerns(event, role, account) ==
    /\ ~Skipped(event)
    /\ RoleIdentifier(event) = role
    /\ event.eventParameters.account = account

HeldOnChain(role, account) ==
    \E i \in 1..Len(history) :
        /\ Concerns(history[i], role, account)
        /\ history[i].eventName = "RoleGranted"
        /\ \A j \in (i + 1)..Len(history) : ~Concerns(history[j], role, account)

ReportedHolder(role, account) ==
    LET key == Or(tryIdentifyRoleName(role), role)
    IN  /\ HasKey(roleMap, key)
        /\ \E i \in 1..Len(Get(roleMap, key)) : Get(roleMap, key)[i] = account

\* C1: when find-roles is done, a (role, account) pair is reported as held iff
\* the last event for that pair in chain order is a grant (so grant, revoke,
\* grant ends with the account holding the role).
C1_ChronologicalFold ==
    pcR = "done" =>
        \A role \in RoleIds, account \in Accounts :
            ReportedHolder(role, account) <=> HeldOnChain(role, account)

\* C2: the planned top-level chunks are increasing, contiguous and
\* non-overlapping, start at fromBlock, end at toBlock, and their union is
\* exactly [fromBlock, toBlock].
C2_ChunksPartitionSpan ==
    ChunkedPathTaken =>
        /\ TopChunk(1).from = cfg.from
        /\ TopChunk(TopCount).to = cfg.to
        /\ \A i \in 1..TopCount : TopChunk(i).from <= TopChunk(i).to
        /\ \A i \in 1..(TopCount - 1) : TopChunk(i + 1).from = TopChunk(i).to + 1
        /\ UNION {BlocksOf(TopChunk(i)) : i \in 1..TopCount} = cfg.from..cfg.to

\* C3: every planned chunk holds at most maxBlockRange blocks, only the last
\* may hold fewer, and there are ceil((toBlock - fromBlock + 1) / maxBlockRange)
\* chunks.
C3_ChunkSizesAndCount ==
    ChunkedPathTaken =>
        /\ \A i \in 1..TopCount : ChunkSize(TopChunk(i)) <= cfg.max
        /\ \A i \in 1..(TopCount - 1) : ChunkSize(TopChunk(i)) = cfg.max
        /\ TopCount = Ceil(cfg.to - cfg.from + 1, cfg.max)

\* C4: the single-query path is taken only when the span's block count is at
\* most maxBlockRange, so no node log query covers more than maxBlockRange blocks.
C4_QueriesWithinLimit ==
    /\ pc = "single" => cfg.to - cfg.from + 1 <= cfg.max
    /\ \A q \in queried : ChunkSize(q) <= cfg.max

\* C5: the span [100, 5000] under limit 1000 is planned as exactly the five
\* chunks [100,1099], [1100,2099], [2100,3099], [3100,4099], [4100,5000].
C5_ScenarioChunks ==
    (cfg = [from |-> 100, to |-> 5000, max |-> 1000] /\ pc \in {"chunked", "done"}) =>
        /\ TopCount = 5
        /\ [i \in 1..TopCount |-> <<TopChunk(i).from, TopChunk(i).to>>] =
               << <<100, 1099>>, <<1100, 2099>>, <<2100, 3099>>,
                  <<3100, 4099>>, <<4100, 5000>> >>

C5_Witness ==
    /\ cfg = [from |-> 100, to |-> 5000, max |-> 1000]
    /\ pc = "done"
    /\ TopCount = 5
    /\ queried = {[from |-> TopChunk(i).from, to |-> TopChunk(i).to] : i \in 1..5}

\* C6: with queries that never fail, a completed getEventLogs call returns the
\* log sequence the single query of the whole span returns, whether the limit
\* let it take the single-query path or split the span into chunks.
C6_ChunkedEqualsSingle ==
    pc = "done" => allLogs = QueryFilter(cfg.from, cfg.to)

\* C7: whatever the completion order of the chunk queries, every merge is the
\* concatenation of the per-chunk results in ascending chunk order, and the
\* returned logs are in non-decreasing (blockNumber, logIndex) order.
C7_MergeInChunkOrder ==
    /\ \A p \in DOMAIN tasks :
           tasks[p].st = "merged" => tasks[p].result = ConcatAscending(LeavesUnder(p))
    /\ (pc = "done" /\ ChunkedPathTaken) =>
           /\ allLogs = ConcatAscending(Leaves)
           /\ IsOrdered(allLogs)

C7_Witness ==
    /\ pc = "done"
    /\ outOfOrder
    /\ \E p \in DOMAIN tasks :
           /\ tasks[p].st = "merged"
           /\ Len(tasks[p].result) >= 2
           /\ Len(allLogs) > Len(tasks[p].result)

C10_ResplitCoversChunk ==
    /\ \A p \in DOMAIN tasks :
           tasks[p].st \in {"split", "merged"} =>
               LET reduced == ReducedMaxRange(tasks[p].maxRange)
                   sub(j) == tasks[Append(p, j)]
               IN  /\ ChunkSize(tasks[p]) > reduced /\ reduced >= 10
                   /\ tasks[p].n >= 1
                   /\ \A j \in 1..tasks[p].n : Append(p, j) \in DOMAIN tasks
                   /\ sub(1).from = tasks[p].from
                   /\ sub(tasks[p].n).to = tasks[p].to
                   /\ \A j \in 1..(tasks[p].n - 1) : sub(j + 1).from = sub(j).to + 1
                   /\ \A j \in 1..tasks[p].n :
                          /\ 1 <= ChunkSize(sub(j)) /\ ChunkSize(sub(j)) <= reduced
                          /\ sub(j).maxRange = reduced
                          /\ [from |-> sub(j).from, to |-> sub(j).to] \in queried
    /\ \A p \in FailedLeaves :
           tasks[p].err = "timeout" =>
               \/ ChunkSize(tasks[p]) <= ReducedMaxRange(tasks[p].maxRange)
               \/ ReducedMaxRange(tasks[p].maxRange) < 10
    /\ SubChunks([from |-> 0, to |-> 999], ReducedMaxRange(1000)) =
           [j \in 1..10 |-> [from |-> 100 * (j - 1), to |-> 100 * j - 1]]

C10_Witness ==
    \E p \in DOMAIN tasks :
        /\ tasks[p].st = "split"
        /\ tasks[p].n = 10
        /\ tasks[Append(p, 1)].st = "ok"
        /\ tasks[Append(p, 2)].st = "failed"
        /\ tasks[Append(p, 3)].st = "pending"


(***************************************************************************)
(* C11: a chunk whose query fails with an error that is not a timeout is   *)
(* never re-split: only a timeout splits a chunk.  Such a chunk is a       *)
(* failed leaf without sub-chunks and without logs, it is counted exactly  *)
(* once under its own category, the fetch does not abort, and every other  *)
(* chunk still in flight can complete with its own logs.                   *)
(***************************************************************************)
NonTimeoutCategories == {"rate-limit", "other"}

FailedWith(category) == {p \in FailedLeaves : tasks[p].err = category}

Counted(category) ==
    IF category \in DOMAIN progressStats.errors THEN progressStats.errors[category] ELSE 0

C11_NonTimeoutNeverResplit ==
    ChunkedPathTaken =>
        /\ pc # "error"
        /\ \A p \in DOMAIN tasks :
               /\ tasks[p].st \in {"split", "merged"} => tasks[p].err = "timeout"
               /\ (tasks[p].st = "failed" /\ tasks[p].err \in NonTimeoutCategories) =>
                      /\ tasks[p].n = 0
                      /\ tasks[p].result = <<>>
                      /\ ~\E q \in DOMAIN tasks : q # p /\ IsSubPath(p, q)
               /\ tasks[p].st = "pending" => ENABLED ChunkSucceeds(p)
               /\ tasks[p].st = "ok" => tasks[p].result = QueryFilter(tasks[p].from, tasks[p].to)
        /\ \A category \in NonTimeoutCategories :
               Counted(category) = Cardinality(FailedWith(category))

\* a full chunk failed on a rate limit, where a timeout would have re-split it,
\* and the fetch finished with the logs of another chunk
C11_Witness ==
    /\ pc = "done"
    /\ \E p \in FailedWith("rate-limit") :
           /\ ChunkSize(tasks[p]) > ReducedMaxRange(tasks[p].maxRange)
           /\ ReducedMaxRange(tasks[p].maxRange) >= 10
    /\ \E q \in DOMAIN tasks : tasks[q].st = "ok" /\ tasks[q].result # <<>>
    /\ allLogs # <<>>

(***************************************************************************)
(* C12: even when every query to the node times out, the fetch terminates: *)
(* each re-split gives sub-chunks of a limit ten times smaller, a limit    *)
(* below 10 is never split, so the re-split depth is bounded and every     *)
(* run reaches the end of getEventLogs.                                    *)
(***************************************************************************)
RECURSIVE SplitDepth(_)
SplitDepth(maxRange) ==
    IF maxRange \div 10 >= 10 THEN 1 + SplitDepth(maxRange \div 10) ELSE 0

ParentOf(p) == SubSeq(p, 1, Len(p) - 1)

DepthBounded ==
    \A p \in DOMAIN tasks :
        /\ Len(p) <= 1 + SplitDepth(cfg.max)
        /\ Len(p) > 1 =>
               /\ tasks[p].maxRange = tasks[ParentOf(p)].maxRange \div 10
               /\ tasks[p].maxRange >= 10
               /\ ChunkSize(tasks[p]) < ChunkSize(tasks[ParentOf(p)])
               /\ ChunkSize(tasks[p]) <= tasks[p].maxRange

C12_TerminatesUnderTimeouts == <>(pc = "done") /\ []DepthBounded

\* every query timed out, down to the sub-chunks, and the fetch still finished
C12_Witness ==
    /\ pc = "done"
    /\ \E p \in DOMAIN tasks : Len(p) > 1
    /\ \A p \in Leaves : tasks[p].st = "failed" /\ tasks[p].err = "timeout"
    /\ progressStats.failed = Cardinality(Leaves)
    /\ allLogs = <<>>

(***************************************************************************)
(* Retry wrapper: helpers of the properties.                               *)
(***************************************************************************)
ProviderCall == call.fn = "withProviderRetry"

HttpCall == call.fn = "withHttpRetry"

FirstFailed == Len(attempts) >= 1 /\ attempts[1].outcome.status = "error"

LastAttempt == attempts[Len(attempts)]

AttemptsOn(endpoint) == {k \in 1..Len(attempts) : attempts[k].endpoint = endpoint}

AttemptsBy(provider) == {k \in 1..Len(attempts) : attempts[k].provider = provider}

Terminal == rpc \in {"returned", "thrown"}

\* the increased-timeout retry was made and failed
TimeoutRetryFailed ==
    /\ Len(attempts) >= 2
    /\ attempts[2].provider = "retryProvider"
    /\ attempts[2].outcome.status = "error"

(***************************************************************************)
(* C13: when the first attempt of withProviderRetry fails with a           *)
(* timeout-classified error and the original provider's connection URL is  *)
(* available, the wrapper waits RETRY_DELAY_MS and retries exactly once on *)
(* the same endpoint with the timeout INCREASED_TIMEOUT_MS = 30000 = 30 x  *)
(* RETRY_DELAY_MS, before any attempt on the alternative endpoint; when    *)
(* that retry succeeds its result is returned and the alternative endpoint *)
(* is never contacted.                                                     *)
(***************************************************************************)
C13_TimeoutRetriedWithIncreasedTimeout ==
    /\ INCREASED_TIMEOUT_MS = 30000
    /\ INCREASED_TIMEOUT_MS = 30 * RETRY_DELAY_MS
    /\ (ProviderCall /\ call.original = "url" /\ FirstFailed /\ isTimeoutError(attempts[1].outcome)) =>
          /\ rpc = "timeoutDelay" => Len(attempts) = 1 /\ settled.kind = "none"
          /\ rpc # "timeoutDelay" =>
                /\ Len(attempts) >= 2
                /\ attempts[2].endpoint = "primary"
                /\ attempts[2].timeout = INCREASED_TIMEOUT_MS
                /\ attempts[2].at = attempts[1].at + RETRY_DELAY_MS
                /\ Cardinality(AttemptsBy("retryProvider")) = 1
                /\ \A k \in AttemptsOn("alternative") : k > 2
                /\ attempts[2].outcome.status = "pending" => rpc = "timeoutRetry"
                /\ attempts[2].outcome.status = "ok" =>
                      /\ rpc = "returned"
                      /\ settled = [kind |-> "returned", value |-> attempts[2].outcome]
                      /\ Len(attempts) = 2
                      /\ AttemptsOn("alternative") = {}
                      /\ ~ENABLED NextRetry

\* a timeout, then success on the same endpoint with the increased timeout,
\* although an alternative endpoint was configured
C13_Witness ==
    /\ ProviderCall /\ call.original = "url" /\ call.alternativeRpcUrl
    /\ rpc = "returned"
    /\ Len(attempts) = 2
    /\ isTimeoutError(attempts[1].outcome)
    /\ attempts[2].timeout = INCREASED_TIMEOUT_MS
    /\ settled.value.attempt = 2

C16_AtMostTwoAttempts == ProviderCall => Len(attempts) <= 2

(***************************************************************************)
(* C16, amended: every call of withProviderRetry invokes its operation at  *)
(* most three times: once on the original provider, at most once with the  *)
(* increased timeout on the same endpoint, at most once on the alternative *)
(* endpoint.  A third attempt happens only when the original provider's    *)
(* URL is available, the first error is a timeout, the increased-timeout   *)
(* retry failed and an alternative RPC is configured; otherwise at most    *)
(* two attempts are made.  Nothing is attempted after the call settles.    *)
(***************************************************************************)
C16_AtMostThreeAttempts ==
    ProviderCall =>
        /\ Len(attempts) <= 3
        /\ \A provider \in {"original", "retryProvider", "alternativeProvider"} :
               Cardinality(AttemptsBy(provider)) <= 1
        /\ Len(attempts) = 3 =>
              /\ call.original = "url"
              /\ call.alternativeRpcUrl
              /\ isTimeoutError(attempts[1].outcome)
              /\ TimeoutRetryFailed
              /\ attempts[3].endpoint = "alternative"
        /\ Terminal => ~ENABLED NextRetry

\* three invocations of the operation in one call
C16_Witness ==
    /\ ProviderCall
    /\ Terminal
    /\ Len(attempts) = 3
    /\ AttemptsBy("original") = {1}
    /\ AttemptsBy("retryProvider") = {2}
    /\ AttemptsBy("alternativeProvider") = {3}

(***************************************************************************)
(* C17: withHttpRetry invokes its operation once and returns its response  *)
(* on success; when the first attempt fails it waits RETRY_DELAY_MS and    *)
(* invokes the same operation exactly once more, returns that response on  *)
(* success and throws the error of the second attempt (not of the first)   *)
(* on failure; the operation is never invoked more than twice.             *)
(***************************************************************************)
C17_HttpRetriedOnce ==
    (HttpCall /\ Len(attempts) >= 1) =>
        /\ Len(attempts) <= 2
        /\ \A k \in 1..Len(attempts) : attempts[k].endpoint = "http"
        /\ attempts[1].outcome.status = "pending" => rpc = "http"
        /\ attempts[1].outcome.status = "ok" =>
              /\ rpc = "returned"
              /\ Len(attempts) = 1
              /\ now = 0
              /\ settled = [kind |-> "returned", value |-> attempts[1].outcome]
        /\ attempts[1].outcome.status = "error" =>
              \/ rpc = "httpDelay" /\ Len(attempts) = 1 /\ settled.kind = "none"
              \/ /\ Len(attempts) = 2
                 /\ attempts[2].at = attempts[1].at + RETRY_DELAY_MS
                 /\ attempts[2].outcome.status = "pending" => rpc = "httpRetry"
                 /\ attempts[2].outcome.status = "ok" =>
                       /\ rpc = "returned"
                       /\ settled = [kind |-> "returned", value |-> attempts[2].outcome]
                 /\ attempts[2].outcome.status = "error" =>
                       /\ rpc = "thrown"
                       /\ settled = [kind |-> "thrown", value |-> attempts[2].outcome]
                       /\ settled.value.attempt = 2
        /\ Terminal => ~ENABLED NextRetry

\* both HTTP attempts failed, with different errors, and the second was thrown
C17_Witness ==
    /\ HttpCall
    /\ rpc = "thrown"
    /\ Len(attempts) = 2
    /\ attempts[1].outcome.code # attempts[2].outcome.code
    /\ settled.value = attempts[2].outcome

(***************************************************************************)
(* C18: a node operation whose first attempt fails with an error that      *)
(* categorizeError classifies as rate-limit is never attempted again on    *)
(* the primary endpoint: the only further attempt is the one on the        *)
(* alternative endpoint, and without an alternative RPC the error is       *)
(* thrown with no retry and no delay.                                      *)
(***************************************************************************)
C18_RateLimitOnlyViaFallback ==
    (ProviderCall /\ FirstFailed /\ categorizeError(attempts[1].outcome) = "rate-limit") =>
        /\ AttemptsOn("primary") = {1}
        /\ AttemptsBy("retryProvider") = {}
        /\ rpc \notin {"timeoutDelay", "timeoutRetry"}
        /\ Len(attempts) <= 2
        /\ Len(attempts) = 2 => call.alternativeRpcUrl /\ attempts[2].endpoint = "alternative"
        /\ ~call.alternativeRpcUrl =>
              /\ Len(attempts) = 1
              /\ now = 0
              /\ rpc = "thrown"
              /\ settled = [kind |-> "thrown", value |-> attempts[1].outcome]

\* a rate-limited first attempt of an operation whose provider URL is known,
\* followed by the attempt on the alternative endpoint
C18_Witness ==
    /\ ProviderCall /\ call.original = "url" /\ call.alternativeRpcUrl
    /\ FirstFailed
    /\ categorizeError(attempts[1].outcome) = "rate-limit"
    /\ Len(attempts) = 2
    /\ attempts[2].endpoint = "alternative"
    /\ Terminal

(***************************************************************************)
(* find-roles against the authoritative state: helpers.                    *)
(***************************************************************************)
\* the role ids the result file lists under the given key
RolesOfKey(key) == {role \in RoleIds : Or(tryIdentifyRoleName(role), role) = key}

ListedAccounts(entry) == {entry.value[i] : i \in 1..Len(entry.value)}

(***************************************************************************)
(* C19: no false positives.  When find-roles is done with the complete     *)
(* grant and revoke events of a contract, every account listed under a     *)
(* role in the result holds that role in the authoritative state: the last *)
(* event of the pair in chain order is a grant.                            *)
(***************************************************************************)
C19_NoFalsePositives ==
    pcR = "done" =>
        /\ \A i \in 1..Len(roleMap) :
               \A account \in ListedAccounts(roleMap[i]) :
                   /\ RolesOfKey(roleMap[i].key) # {}
                   /\ \A role \in RolesOfKey(roleMap[i].key) : HeldOnChain(role, account)
        /\ \A role \in RoleIds, account \in Accounts :
               ReportedHolder(role, account) => HeldOnChain(role, account)

\* one account is reported for a role while another account's grant of the
\* same role was revoked and is not reported
C19_Witness ==
    /\ pcR = "done"
    /\ \E role \in RoleIds, kept \in Accounts, removed \in Accounts :
           /\ kept # removed
           /\ ReportedHolder(role, kept)
           /\ ~ReportedHolder(role, removed)
           /\ \E i, j \in 1..Len(history) :
                  /\ i < j
                  /\ Concerns(history[i], role, removed) /\ history[i].eventName = "RoleGranted"
                  /\ Concerns(history[j], role, removed) /\ history[j].eventName = "RoleRevoked"

(***************************************************************************)
(* C20: no missed holders.  When find-roles is done with the complete      *)
(* grant and revoke events of a contract, every account it does not list   *)
(* under a role does not hold that role in the authoritative state.        *)
(***************************************************************************)
C20_NoMissedHolders ==
    pcR = "done" =>
        \A role \in RoleIds, account \in Accounts :
            ~ReportedHolder(role, account) => ~HeldOnChain(role, account)

(***************************************************************************)
(* find-roles as a function of its event lists: helpers.                   *)
(***************************************************************************)
GrantedOf(events) == SelectSeq(events, LAMBDA event : event.eventName = "RoleGranted")

RevokedOf(events) == SelectSeq(events, LAMBDA event : event.eventName = "RoleRevoked")

\* roleHolders after both loops over the given events
Fold(events) == RevokeLoop(GrantLoop(<<>>, GrantedOf(events), 1), RevokedOf(events), 1)

\* an event without a role identifier (neither role nor roleId) or without an account
MissingField(event) ==
    \/ event.eventParameters.role = Undefined /\ event.eventParameters.roleId = Undefined
    \/ event.eventParameters.account = Undefined

EventPair(event) ==
    [role |-> IF event.eventParameters.role # Undefined
              THEN event.eventParameters.role ELSE event.eventParameters.roleId,
     account |-> event.eventParameters.account]

GrantedPairs ==
    {EventPair(history[i]) : i \in {j \in 1..Len(history) :
        history[j].eventName = "RoleGranted" /\ ~MissingField(history[j])}}

\* a revoke of a pair no event ever granted
IdleRevoke(event) ==
    /\ event.eventName = "RoleRevoked"
    /\ ~MissingField(event)
    /\ EventPair(event) \notin GrantedPairs

HasFlag(holders, role, account) ==
    HasKey(holders, role) /\ HasKey(Get(holders, role), account)

(***************************************************************************)
(* C21: a revoke event of a (role, account) pair that was never granted is *)
(* a no-op: the reconstruction goes on to its end, the account is not      *)
(* reported as a holder, no entry is created for the pair, and roleHolders *)
(* and the role map are what they are without that revoke event.           *)
(***************************************************************************)
C21_RevokeOfNeverGrantedIsNoOp ==
    /\ (written = <<>> /\ pcR = "revoked") => ENABLED ProcessRevoked
    /\ pcR \in {"roleMap", "done"} =>
          /\ roleHolders = Fold(SelectSeq(history, LAMBDA event : ~IdleRevoke(event)))
          /\ \A i \in 1..Len(history) :
                 IdleRevoke(history[i]) =>
                     ~HasFlag(roleHolders, EventPair(history[i]).role, EventPair(history[i]).account)
    /\ pcR = "done" =>
          /\ roleMap = RoleMapLoop(<<>>, Fold(SelectSeq(history, LAMBDA event : ~IdleRevoke(event))), 1)
          /\ \A i \in 1..Len(history) :
                 IdleRevoke(history[i]) =>
                     ~ReportedHolder(EventPair(history[i]).role, EventPair(history[i]).account)

\* a never-granted pair was revoked, another account holds the same role and is reported
C21_Witness ==
    /\ pcR = "done"
    /\ \E i \in 1..Len(history) :
           /\ IdleRevoke(history[i])
           /\ \E account \in Accounts :
                  /\ account # EventPair(history[i]).account
                  /\ ReportedHolder(EventPair(history[i]).role, account)

WellFormedOnly == SelectSeq(history, LAMBDA event : ~MissingField(event))

C23_MalformedEventsSkipped ==
    /\ (written = <<>> /\ pcR \in {"granted", "revoked", "roleMap"}) => ENABLED NextRoles
    /\ pcR \in {"roleMap", "done"} =>
          /\ roleHolders = Fold(WellFormedOnly)
          /\ warnings = Len(history) - Len(WellFormedOnly)
    /\ pcR = "done" => roleMap = RoleMapLoop(<<>>, Fold(WellFormedOnly), 1)

\* a malformed grant and a malformed revoke were skipped and a holder is reported
C23_Witness ==
    /\ pcR = "done"
    /\ warnings = 2
    /\ \E i, j \in 1..Len(history) :
           /\ MissingField(history[i]) /\ history[i].eventName = "RoleGranted"
           /\ MissingField(history[j]) /\ history[j].eventName = "RoleRevoked"
    /\ \E role \in RoleIds, account \in Accounts : ReportedHolder(role, account)

(***************************************************************************)
(* C24: the role map never lists an account under a role when the final    *)
(* flag of the pair is false; every listed account has final flag true;    *)
(* every role of roleHolders has its list, and a list keeps its accounts   *)
(* in insertion order, the order of their first grant.                     *)
(***************************************************************************)
PositionOf(object, key) == CHOOSE i \in 1..Len(object) : object[i].key = key

FirstGrant(role, account) ==
    CHOOSE i \in 1..Len(history) :
        /\ history[i].eventName = "RoleGranted"
        /\ ~MissingField(history[i])
        /\ EventPair(history[i]) = [role |-> role, account |-> account]
        /\ \A j \in 1..(i - 1) :
               ~(/\ history[j].eventName = "RoleGranted"
                 /\ ~MissingField(history[j])
                 /\ EventPair(history[j]) = [role |-> role, account |-> account])

C24_OnlyTrueFlagsListed ==
    pcR = "done" =>
        /\ Len(roleMap) = Len(roleHolders)
        /\ \A i \in 1..Len(roleHolders) :
               LET role == roleHolders[i].key
                   flags == roleHolders[i].value
                   list == roleMap[i].value
               IN  /\ roleMap[i].key = Or(tryIdentifyRoleName(role), role)
                   /\ \A j \in 1..Len(flags) :
                          (\E k \in 1..Len(list) : list[k] = flags[j].key) <=> flags[j].value
                   /\ \A k \in 1..Len(list) : HasKey(flags, list[k]) /\ Get(flags, list[k])
                   /\ \A k1, k2 \in 1..Len(list) :
                          k1 < k2 =>
                              /\ PositionOf(flags, list[k1]) < PositionOf(flags, list[k2])
                              /\ FirstGrant(role, list[k1]) < FirstGrant(role, list[k2])

\* a role with a revoked account, inserted first, and a listed account after it
C24_Witness ==
    /\ pcR = "done"
    /\ \E i \in 1..Len(roleHolders) :
           /\ Len(roleHolders[i].value) = 2
           /\ ~roleHolders[i].value[1].value
           /\ roleHolders[i].value[2].value
           /\ roleMap[i].value = <<roleHolders[i].value[2].key>>

(***************************************************************************)
(* Task actions: helpers of the properties.                                *)
(***************************************************************************)
QueryFilterCalls == {k \in 1..Len(nodeCalls) : nodeCalls[k].call = "queryFilter"}

TaskSettled == pcT \in {"done", "failed"}

\* the ABI has every event the task fetches
AbiComplete == \A k \in 1..Len(FetchPlan) : FetchPlan[k] \in job.abi

StageOf(b, i) == batches[b].stages[i]

LookupOf(b, i) == job.chain[batches[b].eventName][i]

BatchLogs == {<<b, i>> : b \in 1..Len(batches), i \in 1..MaxLogs} \cap
             {bi \in (1..Len(batches)) \X (1..MaxLogs) : bi[2] <= Len(batches[bi[1]].stages)}

(***************************************************************************)
(* C25: when the requested event is absent from the ABI, getEventLogs      *)
(* throws at once: no queryFilter call is made for it, nothing is retried  *)
(* and the task fails with that error; find-roles fails before its first   *)
(* getEventLogs call when the ABI lacks RoleGranted or RoleRevoked.        *)
(***************************************************************************)
C25_MissingEventFailsBeforeQuery ==
    /\ \A k \in QueryFilterCalls : nodeCalls[k].eventName \in job.abi
    /\ (job.task = "find-events" /\ job.eventName \notin job.abi) =>
          /\ QueryFilterCalls = {}
          /\ batches = <<>>
          /\ pcT \in {"start", "fetch", "failed"}
          /\ pcT = "failed" =>
                /\ output = [kind |-> "thrown", error |-> "Event not found in contract ABI",
                             records |-> <<>>]
                /\ ~ENABLED NextTask
    /\ (job.task = "find-roles" /\ ~AbiComplete) =>
          /\ QueryFilterCalls = {}
          /\ batches = <<>>
          /\ pcT \in {"start", "check", "failed"}
          /\ pcT = "failed" =>
                /\ output = [kind |-> "thrown",
                             error |-> "Contract does not implement AccessControl interface",
                             records |-> <<>>]
                /\ ~ENABLED NextTask

\* find-events asked for an event its ABI lacks, although logs of it are on chain
C25_Witness ==
    /\ job.task = "find-events"
    /\ job.eventName \notin job.abi
    /\ job.chain[job.eventName] # <<>>
    /\ pcT = "failed"
    /\ output.error = "Event not found in contract ABI"

(***************************************************************************)
(* C26: processLog produces an event record only when both the parent      *)
(* transaction and the parent block of the log were retrieved; when either *)
(* lookup returns nothing it throws and no record of that log exists.      *)
(***************************************************************************)
C26_RecordNeedsTransactionAndBlock ==
    /\ \A bi \in BatchLogs :
           /\ StageOf(bi[1], bi[2]) = "record" =>
                  LookupOf(bi[1], bi[2]).tx /\ LookupOf(bi[1], bi[2]).block
           /\ StageOf(bi[1], bi[2]) = "rejected" =>
                  /\ ~LookupOf(bi[1], bi[2]).tx \/ ~LookupOf(bi[1], bi[2]).block
                  /\ output.error = "Failed to fetch transaction or block data"
           /\ (~LookupOf(bi[1], bi[2]).tx \/ ~LookupOf(bi[1], bi[2]).block) =>
                  StageOf(bi[1], bi[2]) \in {"getTransaction", "getBlock", "rejected"}
    /\ \A k \in 1..Len(output.records) :
           LET lookup == job.chain[output.records[k].eventName][output.records[k].log]
           IN  lookup.tx /\ lookup.block

\* the block of a log was not retrieved although its transaction was, and
\* another log of the batch has its record
C26_Witness ==
    \E bi \in BatchLogs, other \in BatchLogs :
        /\ StageOf(bi[1], bi[2]) = "rejected"
        /\ LookupOf(bi[1], bi[2]).tx
        /\ ~LookupOf(bi[1], bi[2]).block
        /\ other[1] = bi[1]
        /\ StageOf(other[1], other[2]) = "record"

(***************************************************************************)
(* C27: a log whose parent transaction or block cannot be fetched is fatal *)
(* only for its own record: the task still settles by writing its result,  *)
(* computed from the records of all the other logs.                        *)
(***************************************************************************)
DecodableRecords ==
    LET records(eventName) ==
            SelectSeq([i \in 1..Len(job.chain[eventName]) |-> [eventName |-> eventName, log |-> i]],
                      LAMBDA r : LookupsOk(job.chain[eventName][r.log]))
    IN  IF Len(FetchPlan) = 2
        THEN records(FetchPlan[1]) \o records(FetchPlan[2])
        ELSE records(FetchPlan[1])

C27_DecodeFailureIsolated ==
    (AbiComplete /\ TaskSettled) =>
        /\ pcT = "done"
        /\ output.kind = "written"
        /\ output.records = DecodableRecords

(***************************************************************************)
(* C28: a fetch in which a chunk failed is always told apart from a        *)
(* complete one: when getEventLogs returns, it has warned of the failed    *)
(* chunks, with their number and the count of each category, exactly when  *)
(* failed > 0, and whenever it has not warned the returned logs are all    *)
(* the logs of [fromBlock, toBlock].                                       *)
(***************************************************************************)
C28_UndercountAlwaysSignalled ==
    pc = "done" =>
        /\ summary.warned <=> progressStats.failed > 0
        /\ summary.warned =>
              /\ summary.failed = Cardinality(FailedLeaves)
              /\ summary.errors = progressStats.errors
              /\ \A category \in DOMAIN summary.errors :
                     summary.errors[category] = Cardinality(FailedWith(category))
        /\ ~summary.warned => allLogs = QueryFilter(cfg.from, cfg.to)

(***************************************************************************)
(* C29: in every state of a chunked fetch, under every interleaving of the *)
(* chunk workers, 0 <= failed <= completed <= total, total is the number   *)
(* of leaf chunks, completed the number of leaf chunks that have returned  *)
(* and failed the number of those that failed; no step lowers total, a     *)
(* re-split into k sub-chunks raises it by k - 1, and a leaf chunk adds    *)
(* one to completed exactly when it returns, never again afterwards.       *)
(***************************************************************************)
ReturnedIn(t) == {p \in DOMAIN t : t[p].st \in {"ok", "failed"}}

CountersConsistent ==
    ChunkedPathTaken =>
        /\ 0 <= progressStats.failed
        /\ progressStats.failed <= progressStats.completed
        /\ progressStats.completed <= progressStats.total
        /\ progressStats.total = Cardinality(Leaves)
        /\ progressStats.completed = Cardinality(ReturnedIn(tasks))
        /\ progressStats.failed = Cardinality(FailedLeaves)

CountersStep ==
    /\ progressStats'.total >= progressStats.total
    /\ ReturnedIn(tasks) \subseteq ReturnedIn(tasks')
    /\ \A p \in ReturnedIn(tasks) : tasks'[p].st = tasks[p].st
    /\ progressStats'.completed - progressStats.completed =
           Cardinality(ReturnedIn(tasks') \ ReturnedIn(tasks))
    /\ progressStats'.completed - progressStats.completed \in {0, 1}
    /\ \A p \in DOMAIN tasks :
           (tasks[p].st = "pending" /\ tasks'[p].st = "split") =>
               progressStats'.total = progressStats.total + tasks'[p].n - 1

C29_CountersConsistent == []CountersConsistent /\ [][CountersStep]_vars

\* in the middle of a fetch: a chunk was re-split, one leaf has failed, one has
\* succeeded and others are still in flight
C29_Witness ==
    /\ pc = "chunked"
    /\ progressStats.total > TopCount
    /\ progressStats.failed = 1
    /\ progressStats.completed >= 2
    /\ progressStats.completed < progressStats.total
    /\ \E p \in DOMAIN tasks : tasks[p].st = "pending"

(***************************************************************************)
(* C30: the number of chunk queries in flight at once stays within a       *)
(* concurrency cap set below the number of chunks; with the largest such   *)
(* cap, it is always smaller than the number of planned chunks.            *)
(***************************************************************************)
InFlight == {p \in DOMAIN tasks : tasks[p].st = "pending"}

C30_InFlightWithinCap ==
    (ChunkedPathTaken /\ TopCount > 1) => Cardinality(InFlight) <= TopCount - 1

(***************************************************************************)
(* Retry wrapper: sequencing of the attempts of one call.                  *)
(***************************************************************************)
PendingAttempts == {k \in 1..Len(attempts) : attempts[k].outcome.status = "pending"}

Delaying == rpc \in {"timeoutDelay", "alternativeDelay", "httpDelay"}

(***************************************************************************)
(* C31: within one call of withProviderRetry or withHttpRetry the attempts *)
(* are strictly sequential: at most one attempt is in flight at any time   *)
(* (and only the latest one), none is in flight during a delay or after    *)
(* the call settled, every attempt after the first starts only after the   *)
(* attempt before it failed and at least RETRY_DELAY_MS = 1000 ms later,   *)
(* and a successful first attempt is followed by no delay and no further   *)
(* attempt.                                                                *)
(***************************************************************************)
C31_AttemptsSequential ==
    /\ RETRY_DELAY_MS = 1000
    /\ Cardinality(PendingAttempts) <= 1
    /\ PendingAttempts \subseteq {Len(attempts)}
    /\ (Delaying \/ Terminal) => PendingAttempts = {}
    /\ \A k \in 2..Len(attempts) :
           /\ attempts[k - 1].outcome.status = "error"
           /\ attempts[k].at >= attempts[k - 1].at + RETRY_DELAY_MS
    /\ (Len(attempts) >= 1 /\ attempts[1].outcome.status = "ok") =>
           /\ Len(attempts) = 1
           /\ now = 0
           /\ rpc = "returned"
           /\ settled = [kind |-> "returned", value |-> attempts[1].outcome]
           /\ ~ENABLED NextRetry

\* attempt, delay, retry, delay, retry: three attempts one second apart, the
\* third started after the second failed
C31_Witness ==
    /\ ProviderCall
    /\ Len(attempts) = 3
    /\ attempts[1].at = 0
    /\ attempts[2].at = RETRY_DELAY_MS
    /\ attempts[3].at = 2 * RETRY_DELAY_MS
    /\ attempts[2].outcome.status = "error"
    /\ PendingAttempts = {3}

(***************************************************************************)
(* isTimeoutError: helpers of the property.                                *)
(***************************************************************************)
Classified == verdict \notin {"idle", "called"}

\* the normalized code and message of a caught object
NormalizedCode(value) ==
    IF IsString(value.code) THEN toUpperCase(value.code.chars) ELSE <<>>

NormalizedMessage(value) ==
    IF IsString(value.message) THEN toLowerCase(value.message.chars) ELSE <<>>

(***************************************************************************)
(* C32: isTimeoutError classifies a failure from its normalized code and   *)
(* message only: a caught error whose code is TIMEOUT, ETIMEDOUT or        *)
(* ECONNABORTED in any letter case, or whose message contains "timeout" or *)
(* "timed out" in any letter case, is classified as a timeout; a missing   *)
(* error, and an error with neither such code nor such text, is classified *)
(* as no timeout.  Every call returns one of the two answers.              *)
(***************************************************************************)
C32_ClassifiedFromCodeAndMessage ==
    Classified =>
        /\ verdict \in {"true", "false"}
        /\ Missing(caught) => verdict = "false"
        /\ ~Missing(caught) =>
              (verdict = "true") = TimeoutSignal(NormalizedCode(caught), NormalizedMessage(caught))

(***************************************************************************)
(* C33: for every operation built with createProviderOperation (its        *)
(* provider property is undefined) the first attempt runs on the wrapped   *)
(* provider, the increased-timeout retry on the same endpoint is never     *)
(* taken, whatever the first error is, and a call makes at most two        *)
(* attempts: the primary one and, only when an alternative RPC is          *)
(* configured and the primary attempt failed, one on the alternative       *)
(* endpoint.                                                               *)
(***************************************************************************)
C33_WrappedOperationAtMostTwoAttempts ==
    (ProviderCall /\ call.original = "undefined") =>
        /\ originalProvider = UndefinedProvider
        /\ Len(attempts) <= 2
        /\ Len(attempts) >= 1 =>
              /\ attempts[1].provider = WrappedProvider.provider
              /\ attempts[1].endpoint = "primary"
        /\ AttemptsBy("retryProvider") = {}
        /\ AttemptsBy("undefined") = {}
        /\ rpc \notin {"timeoutDelay", "timeoutRetry"}
        /\ \A k \in 1..Len(attempts) : attempts[k].timeout # INCREASED_TIMEOUT_MS
        /\ Len(attempts) = 2 =>
              /\ call.alternativeRpcUrl
              /\ attempts[1].outcome.status = "error"
              /\ attempts[2].endpoint = "alternative"
              /\ attempts[2].provider = "alternativeProvider"
        /\ (~call.alternativeRpcUrl /\ FirstFailed) =>
              rpc = "thrown" /\ Len(attempts) = 1 /\ now = 0
        /\ Terminal => ~ENABLED NextRetry

\* a wrapped operation timed out on the primary endpoint and went straight to
\* the alternative endpoint, one delay later
C33_Witness ==
    /\ ProviderCall /\ call.original = "undefined" /\ call.alternativeRpcUrl
    /\ Len(attempts) = 2
    /\ isTimeoutError(attempts[1].outcome)
    /\ attempts[1].provider = "original"
    /\ attempts[2].endpoint = "alternative"
    /\ attempts[2].at = RETRY_DELAY_MS
    /\ Terminal

(***************************************************************************)
(* One chunk and its wrapper call: helpers of the property.                *)
(***************************************************************************)
FocusTask == tasks[focus]

Decided == focus \in DOMAIN tasks /\ FocusTask.st # "pending"

FallbackFailed ==
    /\ call.alternativeRpcUrl
    /\ Len(attempts) = 2
    /\ attempts[2].endpoint = "alternative"
    /\ attempts[2].outcome.status = "error"

Splittable ==
    /\ ChunkSize(FocusTask) > ReducedMaxRange(FocusTask.maxRange)
    /\ ReducedMaxRange(FocusTask.maxRange) >= 10

HasSubChunks == \E p \in DOMAIN tasks : Len(p) > 1

(***************************************************************************)
(* C34: queryChunkWithRetry decides on the error withProviderRetry finally *)
(* throws.  With an alternative RPC configured that is the error of the    *)
(* attempt on the alternative endpoint: the chunk is re-split only if that *)
(* error is timeout-classified (and, the chunk being large enough, always  *)
(* then); a chunk that timed out on the primary endpoint and failed on the *)
(* alternative one with a non-timeout error is recorded as one failed      *)
(* chunk under the category of the alternative error and has no            *)
(* sub-chunks.                                                             *)
(***************************************************************************)
C34_ResplitDecidedOnFinalError ==
    Decided =>
        /\ FocusTask.st = "ok" <=> settled.kind = "returned"
        /\ FocusTask.st \in {"split", "failed"} <=> settled.kind = "thrown"
        /\ FocusTask.st = "split" <=> HasSubChunks
        /\ FocusTask.st = "split" => isTimeoutError(settled.value)
        /\ FallbackFailed =>
              /\ settled.value = attempts[2].outcome
              /\ FocusTask.st = "split" <=> (isTimeoutError(attempts[2].outcome) /\ Splittable)
              /\ FocusTask.st = "failed" =>
                    /\ FocusTask.err = categorizeError(attempts[2].outcome)
                    /\ progressStats.failed = 1
                    /\ progressStats.errors = (categorizeError(attempts[2].outcome) :> 1)
              /\ (isTimeoutError(attempts[1].outcome) /\ ~isTimeoutError(attempts[2].outcome)) =>
                    /\ FocusTask.st = "failed"
                    /\ FocusTask.err # "timeout"
                    /\ FocusTask.result = <<>>
                    /\ ~HasSubChunks

\* a 100-block chunk under a 100-block limit timed out on the primary endpoint,
\* was rate-limited on the alternative one, and was recorded as failed
C34_Witness ==
    /\ Decided
    /\ FallbackFailed
    /\ Splittable
    /\ isTimeoutError(attempts[1].outcome)
    /\ categorizeError(attempts[2].outcome) = "rate-limit"
    /\ FocusTask.st = "failed"
    /\ FocusTask.err = "rate-limit"

(***************************************************************************)
(* C35: on the single-query path of getEventLogs (span within the limit) a *)
(* query failure that survives the retry executor is propagated to the     *)
(* caller as an error and ends the call; it is never converted into a      *)
(* result: whatever the call returns is the full answer of the one query.  *)
(* No chunk is planned, no progress statistics are kept and no failure     *)
(* summary is printed on that path.  Only that path propagates a query     *)
(* failure.                                                                *)
(***************************************************************************)
C35_SingleQueryFailurePropagates ==
    /\ SingleQueryPath(cfg.from, cfg.to, cfg.max) =>
          /\ tasks = <<>>
          /\ progressStats = NoStats
          /\ summary = NoSummary
          /\ pc \in {"start", "single", "done", "error"}
          /\ pc = "done" => allLogs = QueryFilter(cfg.from, cfg.to)
          /\ pc = "error" =>
                /\ allLogs = <<>>
                /\ queried = {[from |-> cfg.from, to |-> cfg.to]}
                /\ ~ENABLED Next
    /\ pc = "error" => SingleQueryPath(cfg.from, cfg.to, cfg.max)

\* the one query of a span that holds logs failed, and the call ended in an error
C35_Witness ==
    /\ SingleQueryPath(cfg.from, cfg.to, cfg.max)
    /\ QueryFilter(cfg.from, cfg.to) # <<>>
    /\ pc = "error"
    /\ progressStats = NoStats

(***************************************************************************)
(* find-roles as a function of the sets of events: helpers.                *)
(***************************************************************************)
GrantedFor(role, account) ==
    \E i \in 1..Len(history) :
        Concerns(history[i], role, account) /\ history[i].eventName = "RoleGranted"

RevokedFor(role, account) ==
    \E i \in 1..Len(history) :
        Concerns(history[i], role, account) /\ history[i].eventName = "RoleRevoked"

\* the sequence with its events k and k + 1 exchanged
Exchanged(events, k) ==
    [i \in 1..Len(events) |->
        IF i = k THEN events[k + 1] ELSE IF i = k + 1 THEN events[k] ELSE events[i]]

\* the (key, account) pairs a role map lists
ListedPairs(map) ==
    UNION {{<<map[i].key, account>> : account \in ListedAccounts(map[i])} : i \in 1..Len(map)}

KeyOf(role) == Or(tryIdentifyRoleName(role), role)

GrantedRole(role) == \E account \in Accounts : GrantedFor(role, account)

RevokedRole(role) == \E account \in Accounts : RevokedFor(role, account)

(***************************************************************************)
(* C37: when find-roles is done, a role is a key of the role map exactly   *)
(* when at least one well-formed grant event of it was processed, and the  *)
(* map has no other key: a role all of whose granted accounts were revoked *)
(* is listed with an empty holder list, and a role that occurs only in     *)
(* revoke events is not listed.                                            *)
(***************************************************************************)
C37_RoleListedIffGranted ==
    pcR = "done" =>
        /\ \A role \in RoleIds : HasKey(roleMap, KeyOf(role)) <=> GrantedRole(role)
        /\ \A i \in 1..Len(roleMap) : \E role \in RoleIds : roleMap[i].key = KeyOf(role)
        /\ \A i, j \in 1..Len(roleMap) : roleMap[i].key = roleMap[j].key => i = j
        /\ \A role \in RoleIds :
               (GrantedRole(role) /\ \A account \in Accounts :
                                         GrantedFor(role, account) => RevokedFor(role, account)) =>
                   Get(roleMap, KeyOf(role)) = <<>>
        /\ \A role \in RoleIds : (RevokedRole(role) /\ ~GrantedRole(role)) => ~HasKey(roleMap, KeyOf(role))

\* one role was granted and revoked and is listed without holders, another
\* occurs only in a revoke event and is not listed
C37_Witness ==
    /\ pcR = "done"
    /\ \E emptied \in RoleIds, absent \in RoleIds :
           /\ GrantedRole(emptied)
           /\ HasKey(roleMap, KeyOf(emptied))
           /\ Get(roleMap, KeyOf(emptied)) = <<>>
           /\ RevokedRole(absent)
           /\ ~GrantedRole(absent)
           /\ ~HasKey(roleMap, KeyOf(absent))

(***************************************************************************)
(* Re-chunking under a small provider limit: helpers.                      *)
(***************************************************************************)
SmallLimits == 1..99

TimedOut(p) == tasks[p].err = "timeout"

(***************************************************************************)
(* C38: when the governing provider limit is below 100 blocks (the         *)
(* 10-block Alchemy limit for one) floor(limit / 10) < 10, so a timed-out  *)
(* chunk is never re-split: no chunk has sub-chunks, the total stays the   *)
(* number of planned chunks, and every timed-out chunk is one failed chunk *)
(* counted under the category timeout that contributes no logs.            *)
(***************************************************************************)
C38_SmallLimitNeverResplits ==
    /\ \A limit \in SmallLimits : ReducedMaxRange(limit) < 10
    /\ ALCHEMY_MAX_BLOCK_RANGE \in SmallLimits
    /\ cfg.max \in SmallLimits =>
          /\ \A p \in DOMAIN tasks :
                 /\ Len(p) = 1
                 /\ tasks[p].st # "split"
                 /\ \A error \in Errors : ~ShouldSplit(error, tasks[p], tasks[p].maxRange)
                 /\ TimedOut(p) => tasks[p].st = "failed" /\ tasks[p].result = <<>>
          /\ ChunkedPathTaken =>
                /\ progressStats.total = TopCount
                /\ progressStats.failed = Cardinality(FailedLeaves)
                /\ Counted("timeout") = Cardinality({p \in DOMAIN tasks : TimedOut(p)})
          /\ pc = "done" =>
                \A p \in DOMAIN tasks :
                    TimedOut(p) =>
                        \A i \in 1..Len(allLogs) :
                            ~InRange(allLogs[i], tasks[p].from, tasks[p].to)

\* under the 10-block limit a chunk whose blocks hold logs timed out, was not
\* re-split, and the fetch ended without its logs
C38_Witness ==
    /\ cfg.max = ALCHEMY_MAX_BLOCK_RANGE
    /\ pc = "done"
    /\ \E p \in DOMAIN tasks :
           /\ TimedOut(p)
           /\ tasks[p].st = "failed"
           /\ QueryFilter(tasks[p].from, tasks[p].to) # <<>>
    /\ progressStats.total = TopCount
    /\ summary.warned

\* getContractCreationBlock has returned
CreationSettled == pcC = "done"

\* a failure while resolving the explorer, the creation transaction hash or
\* the transaction
CreationFailure ==
    \/ network.explorer \in {"noChainId", "notConfigured"}
    \/ network.explorer = "etherscan" /\ ~network.apiKey
    \/ network.explorer = "etherscan" /\ network.answers.getcontractcreation # "hash"
    \/ txHash = Undefined
    \/ network.tx.kind \in {"throws", "null", "pending"}

\* C39: getContractCreationBlock never propagates an error: once it has
\* settled it has returned; any failure while resolving the explorer, the
\* creation transaction hash or the transaction yields {blockNumber: 0}
\* without txHash; and a result that carries a txHash carries the hash the
\* explorer lookup returned and the non-zero block number of that transaction.
\* Until it has settled it can always take a further step.
C39_CreationBlockNeverThrows ==
    /\ info.kind # "thrown"
    /\ ~CreationSettled => info.kind = "none" /\ ENABLED NextCreation
    /\ CreationSettled =>
           /\ info.kind = "returned"
           /\ CreationFailure => info.blockNumber = 0 /\ info.txHash = Undefined
           /\ info.txHash # Undefined =>
                  /\ info.txHash = txHash
                  /\ network.tx.kind = "mined"
                  /\ info.blockNumber = network.tx.blockNumber
                  /\ info.blockNumber # 0

\* the explorer found the creation transaction but the node failed to return
\* it, and the lookup ended with block 0 and no hash
C39_Witness ==
    /\ CreationSettled
    /\ txHash # Undefined
    /\ network.tx.kind = "throws"
    /\ info = [kind |-> "returned", blockNumber |-> 0, txHash |-> Undefined]

\* getContractCreationTxFromBlockscout has returned
BlockscoutReturned ==
    /\ network.explorer = "blockscout"
    /\ pcC \in {"transaction", "done"}

BlockscoutOrder == <<"getcontractcreation", "v2", "txlist">>

\* C40: getContractCreationTxFromBlockscout tries its strategies in the order
\* getcontractcreation, v2, txlist, none skipped; it returns the hash of the
\* first strategy in that order that yields one, with no later strategy
\* invoked; and it returns undefined only after all three have been tried.
C40_BlockscoutStrategiesInOrder ==
    /\ network.explorer = "blockscout" =>
           /\ Len(strategies) <= Len(BlockscoutOrder)
           /\ strategies = SubSeq(BlockscoutOrder, 1, Len(strategies))
    /\ BlockscoutReturned =>
           /\ txHash # Undefined =>
                  /\ network.answers[strategies[Len(strategies)]] = "hash"
                  /\ txHash = HashFrom(strategies[Len(strategies)])
                  /\ \A i \in 1..(Len(strategies) - 1) :
                         network.answers[strategies[i]] # "hash"
           /\ txHash = Undefined =>
                  /\ strategies = BlockscoutOrder
                  /\ \A i \in 1..Len(strategies) : network.answers[strategies[i]] # "hash"

====
